---- MODULE Spec2Model ----
(***************************************************************************)
(* A model of the Shikamaru-Protocol agent:                                *)
(*   - the AutoClient trading loop (clients/auto.ts),                      *)
(*   - the EXECUTE_STRATEGY action handler and the retrying                *)
(*     StarkNetTransactionHandler.execute (actions/index.ts, utils.ts),    *)
(*   - the allocation engine generateRecommendations and its scoring       *)
(*     functions (the investment strategy provider).                       *)
(* Numbers are modelled as IEEE 754 doubles, rounded after every           *)
(* operation as the code's arithmetic is.                                  *)
(***************************************************************************)
EXTENDS Integers, Sequences, FiniteSets, TLC

(***************************************************************************)
(* Bounds of the model.                                                    *)
(***************************************************************************)
MaxRecs == 2
MaxPools == 2

(***************************************************************************)
(* Program constants.                                                      *)
(***************************************************************************)
maxRetries == 3
retryDelay == 5000

VARIABLES
    \* ---- AutoClient ----
    hasEvaluator,   \* runtime.evaluators contains STRATEGY_EVALUATOR
    hasAction,      \* runtime.actions contains EXECUTE_STRATEGY
    interval,       \* TRUE while the setInterval timer is armed
    isTrading,      \* the in-progress guard
    cpc,            \* where the running makeTrades call is suspended
    lastTick,       \* what the last makeTrades call did at the guard
    lastOutcome,    \* how the last finished cycle left the try block
    unhandled,      \* an exception left makeTrades
    active,         \* makeTrades calls between setting and clearing the guard
    hung,           \* the pending external call will never complete
    \* ---- executeStrategyAction.handler ----
    input,          \* content.recommendations as received (before the sort)
    sorted,         \* sortedRecommendations
    keys,           \* Object.keys(content.protocolTotals)
    pi,             \* index of the protocol being processed
    ri,             \* index in protocolRecs of the recommendation being processed
    results,        \* the results array
    invoked,        \* the handler.executeX calls made, as <<pi, ri>>
    \* ---- StarkNetTransactionHandler.execute ----
    xpc,            \* where execute is suspended
    retry,          \* the retry counter
    attempts,       \* account.execute calls made by the current execute call
    waited,         \* retry delays waited by the current execute call
    txHash,         \* hash of the accepted submission being confirmed
    \* ---- investmentStrategyProvider / generateRecommendations ----
    riskLevel,      \* the risk level whose config is used
    pools,          \* tokenData.pools
    sentiment,      \* the market sentiment object
    totalAmount,    \* investmentData.totalAmount
    apc,            \* "input", then how the recommendations were produced
    recommendations,\* the recommendations produced
    \* ---- protocolDataProvider ----
    zklendData,     \* the pools the zkLend endpoint answers with
    ekuboData,      \* the pools the Ekubo endpoint answers with
    zklendFetch,    \* state of fetchProtocolData(ZKLEND_API_URL)
    ekuboFetch,     \* state of fetchProtocolData(EKUBO_API_URL)
    \* ---- smartContractProvider ----
    positions,      \* contractData.currentPositions
    contractRiskLevel, \* contractData.riskLevel
    riskManagement, \* contractData.riskManagement
    portfolioMetrics, \* contractData.portfolioMetrics once calculated
    rebalanceCheck, \* what shouldRebalance returned; <<>> before the call
    \* ---- confidence calculations ----
    confidenceArgs, \* pool, sentiment, history, recommendation, marketContext
    confidenceResult, \* the score and label calculated; <<>> before the call
    \* ---- strategyEvaluator: portfolio metrics and risk profile ----
    evaluatorRecs,  \* the recommendations calculatePortfolioMetrics is given
    evaluatorMetrics, \* what it returned; <<>> before the call
    characterName,  \* runtime.character.name; "undefined" when missing
    userRiskLevel,  \* the classified risk level; "unset" before the call
    \* ---- marketProvider and its SimpleCache ----
    now,            \* Date.now(), in milliseconds
    cache,          \* the 'market_data' entry of dataCache; <<>> when absent
    mpc,            \* where the running marketProvider.get call is suspended
    fetches,        \* rounds of market data fetching started
    fetched,        \* the string and time of the last successful fetch
    returned,       \* how the last marketProvider.get call ended
    \* ---- AutoClient that keeps trading metrics ----
    tradingState,   \* this.tradingState
    tpc,            \* where the running makeTrades call is suspended
    cycleResult,    \* what the evaluator resolved with in the running cycle
    handlerStatuses, \* the statuses in the results the action handler returned
    trackerInterval, \* TRUE while this client's setInterval timer is armed
    \* ---- defiEvaluator and its recommendation history ----
    recommendationHistory, \* the module-global history; <<>> for a missing key
    confidenceLog,  \* per key, the label last calculated and whether the
                    \* expected return equalled the stored average
    enhanced        \* enhancedRecommendations of the last handler call

clientVars == <<hasEvaluator, hasAction, interval, isTrading, cpc, lastTick,
                lastOutcome, unhandled, active, hung>>
handlerVars == <<input, sorted, keys, pi, ri, results, invoked>>
executeVars == <<xpc, retry, attempts, waited, txHash>>
allocVars == <<riskLevel, pools, sentiment, totalAmount, apc, recommendations>>
fetchVars == <<zklendData, ekuboData, zklendFetch, ekuboFetch>>
contractVars == <<positions, contractRiskLevel, riskManagement, portfolioMetrics,
                  rebalanceCheck>>
confidenceVars == <<confidenceArgs, confidenceResult>>
metricsVars == <<evaluatorRecs, evaluatorMetrics>>
profileVars == <<characterName, userRiskLevel>>
cacheVars == <<now, cache, mpc, fetches, fetched, returned>>
trackerVars == <<tradingState, tpc, cycleResult, handlerStatuses, trackerInterval>>
historyVars == <<recommendationHistory, confidenceLog, enhanced>>
lateVars == <<cacheVars, trackerVars, historyVars>>
earlyVars == <<hasEvaluator, hasAction, interval, isTrading, cpc, lastTick,
               lastOutcome, unhandled, active, hung,
               handlerVars, executeVars, allocVars, fetchVars, contractVars,
               confidenceVars, metricsVars, profileVars>>
besideCache == <<earlyVars, trackerVars, historyVars>>
besideHistory == <<earlyVars, cacheVars, trackerVars>>
besideTracker == <<interval, isTrading, cpc, lastTick, lastOutcome, unhandled, active, hung,
                   handlerVars, executeVars, allocVars, fetchVars, contractVars,
                   confidenceVars, metricsVars, profileVars, cacheVars, historyVars>>

\* What a step of the trading cycle leaves alone, and what a step of each
\* other component leaves alone besides its own variables.
cycleVars == <<clientVars, handlerVars, executeVars>>
offCycleVars == <<allocVars, fetchVars, contractVars, confidenceVars, metricsVars, profileVars, lateVars>>
besideStrategy == <<cycleVars, contractVars, confidenceVars, metricsVars, profileVars, lateVars>>
besideAlloc == <<fetchVars, besideStrategy>>
besideContract == <<cycleVars, allocVars, fetchVars, confidenceVars, metricsVars, profileVars, lateVars>>
besideConfidence == <<cycleVars, allocVars, fetchVars, contractVars, metricsVars, profileVars, lateVars>>
besideMetrics == <<cycleVars, allocVars, fetchVars, contractVars, confidenceVars, profileVars, lateVars>>
besideProfile == <<cycleVars, allocVars, fetchVars, contractVars, confidenceVars, metricsVars, lateVars>>

vars == <<hasEvaluator, hasAction, interval, isTrading, cpc, lastTick,
          lastOutcome, unhandled, active, hung,
          input, sorted, keys, pi, ri, results, invoked,
          xpc, retry, attempts, waited, txHash,
          riskLevel, pools, sentiment, totalAmount, apc, recommendations,
          zklendData, ekuboData, zklendFetch, ekuboFetch,
          positions, contractRiskLevel, riskManagement, portfolioMetrics, rebalanceCheck,
          confidenceArgs, confidenceResult, evaluatorRecs, evaluatorMetrics,
          characterName, userRiskLevel,
          now, cache, mpc, fetches, fetched, returned,
          tradingState, tpc, cycleResult, handlerStatuses, trackerInterval,
          recommendationHistory, confidenceLog, enhanced>>

(***************************************************************************)
(* Numbers.  A JavaScript number is an IEEE 754 double.  A finite double   *)
(* is modelled as sign * m * 2^e with m an odd natural number of at most   *)
(* 53 bits (the empty mantissa for 0), held as a sequence of 15-bit limbs, *)
(* least significant first, because an integer of the checker has 32 bits. *)
(* Every operation computes the exact result and rounds it to the nearest  *)
(* double, ties to even, as the hardware does.  The exponent is unbounded  *)
(* (no overflow to Infinity, no subnormal numbers) and -0 is 0.            *)
(***************************************************************************)
\* The arithmetic is entered through Evaluate, one recursive operator that
\* applies the operator named by its first argument to the arguments in its
\* second, and the operators below call one another through it: TLC's
\* coverage statistics copy a definition at every use of it outside its own
\* body, so that a use of Add written as an application of Evaluate costs
\* one node instead of a copy of the whole arithmetic.
RECURSIVE Evaluate(_, _)
BigShl(a, k) == Evaluate("BigShl", <<a, k>>)
BigShr(a, k) == Evaluate("BigShr", <<a, k>>)
BigMul(a, b) == Evaluate("BigMul", <<a, b>>)
BigDivDigit(b, r) == Evaluate("BigDivDigit", <<b, r>>)
BigDivMod(a, b) == Evaluate("BigDivMod", <<a, b>>)
Canonical(sign, n, e) == Evaluate("Canonical", <<sign, n, e>>)
Rounded(sign, n, e) == Evaluate("Rounded", <<sign, n, e>>)
Num(i) == Evaluate("Num", <<i>>)
Compare(x, y) == Evaluate("Compare", <<x, y>>)
Add(x, y) == Evaluate("Add", <<x, y>>)
Mul(x, y) == Evaluate("Mul", <<x, y>>)
Div(x, y) == Evaluate("Div", <<x, y>>)
Frac(n, d) == Evaluate("Frac", <<n, d>>)

Abs(a) == IF a < 0 THEN -a ELSE a

Sign(a) == IF a > 0 THEN 1 ELSE IF a < 0 THEN -1 ELSE 0

\* The number of bits of the natural number n
BitLenOf(n) == IF n = 0 THEN 0 ELSE CHOOSE k \in 1..31 : n \div 2 ^ (k - 1) = 1

Base == 2 ^ 15
LimbBits == BitLenOf(Base) - 1
MantissaBits == 52 + 1

Limb(a, i) == IF i <= Len(a) THEN a[i] ELSE 0

RECURSIVE BigTrim(_)
BigTrim(a) ==
    IF a = <<>> THEN <<>>
    ELSE IF a[Len(a)] = 0 THEN BigTrim(SubSeq(a, 1, Len(a) - 1))
    ELSE a

RECURSIVE BigOfInt(_)
BigOfInt(n) == IF n = 0 THEN <<>> ELSE <<n % Base>> \o BigOfInt(n \div Base)

RECURSIVE BigAddFrom(_, _, _, _)
BigAddFrom(a, b, i, carry) ==
    IF i > Len(a) /\ i > Len(b) THEN (IF carry = 0 THEN <<>> ELSE <<carry>>)
    ELSE LET t == Limb(a, i) + Limb(b, i) + carry
         IN  <<t % Base>> \o BigAddFrom(a, b, i + 1, t \div Base)

BigAdd(a, b) == BigAddFrom(a, b, 1, 0)

\* a - b for a >= b
RECURSIVE BigSubFrom(_, _, _, _)
BigSubFrom(a, b, i, borrow) ==
    IF i > Len(a) THEN <<>>
    ELSE LET t == a[i] - Limb(b, i) - borrow
         IN  <<IF t < 0 THEN t + Base ELSE t>>
               \o BigSubFrom(a, b, i + 1, IF t < 0 THEN 1 ELSE 0)

BigSub(a, b) == BigTrim(BigSubFrom(a, b, 1, 0))

RECURSIVE BigCmpAt(_, _, _)
BigCmpAt(a, b, i) ==
    IF i = 0 THEN 0
    ELSE IF a[i] # b[i] THEN (IF a[i] > b[i] THEN 1 ELSE -1)
    ELSE BigCmpAt(a, b, i - 1)

\* -1, 0 or 1 as a <, = or > b
BigCmp(a, b) ==
    IF Len(a) # Len(b) THEN (IF Len(a) > Len(b) THEN 1 ELSE -1)
    ELSE BigCmpAt(a, b, Len(a))

\* a * k for 0 <= k <= Base
RECURSIVE BigMulSmallFrom(_, _, _, _)
BigMulSmallFrom(a, k, i, carry) ==
    IF i > Len(a) THEN (IF carry = 0 THEN <<>> ELSE <<carry>>)
    ELSE LET t == a[i] * k + carry
         IN  <<t % Base>> \o BigMulSmallFrom(a, k, i + 1, t \div Base)

BigMulSmall(a, k) == BigTrim(BigMulSmallFrom(a, k, 1, 0))

\* a * Base^n
BigShlLimbs(a, n) == IF a = <<>> THEN <<>> ELSE [i \in 1..n |-> 0] \o a

RECURSIVE BigMulFrom(_, _, _)
BigMulFrom(a, b, i) ==
    IF i > Len(b) THEN <<>>
    ELSE BigAdd(BigMulSmall(a, b[i]), BigShlLimbs(BigMulFrom(a, b, i + 1), 1))

BigMulOf(a, b) == BigMulFrom(a, b, 1)

\* a * 2^k
BigShlOf(a, k) == BigShlLimbs(BigMulSmall(a, 2 ^ (k % LimbBits)), k \div LimbBits)

\* Quotient and remainder of a by k, 0 < k <= Base, from limb i down.
RECURSIVE BigDivSmallAt(_, _, _, _)
BigDivSmallAt(a, k, i, rem) ==
    IF i = 0 THEN [q |-> <<>>, r |-> rem]
    ELSE LET t == rem * Base + a[i]
             rest == BigDivSmallAt(a, k, i - 1, t % k)
         IN  [q |-> rest.q \o <<t \div k>>, r |-> rest.r]

BigDivSmall(a, k) ==
    LET res == BigDivSmallAt(a, k, Len(a), 0)
    IN  [q |-> BigTrim(res.q), r |-> IF res.r = 0 THEN <<>> ELSE <<res.r>>]

\* floor(a / 2^k)
BigShrOf(a, k) ==
    LET n == k \div LimbBits
    IN  IF n >= Len(a) THEN <<>>
        ELSE BigDivSmall(SubSeq(a, n + 1, Len(a)), 2 ^ (k % LimbBits)).q

BigBitLen(a) == IF a = <<>> THEN 0 ELSE LimbBits * (Len(a) - 1) + BitLenOf(a[Len(a)])

\* Bit i of a, the least significant being bit 0.
BigBit(a, i) == (Limb(a, i \div LimbBits + 1) \div 2 ^ (i % LimbBits)) % 2

\* The k low bits of a are all 0.
BigLowZero(a, k) ==
    /\ \A i \in 1..(k \div LimbBits) : Limb(a, i) = 0
    /\ Limb(a, k \div LimbBits + 1) % 2 ^ (k % LimbBits) = 0


\* The number of low 0 bits of a # 0.
BigTrailingZeros(a) ==
    LET i == CHOOSE j \in 1..Len(a) : a[j] # 0 /\ \A h \in 1..(j - 1) : a[h] = 0
    IN  LimbBits * (i - 1)
          + CHOOSE z \in 0..(LimbBits - 1) : (a[i] % 2 ^ z) = 0 /\ ((a[i] \div 2 ^ z) % 2) = 1


\* The next digit of the long division by b, whose highest limb is at least
\* Base / 2, r being the remainder so far with the next limb of the dividend
\* appended.  The digit estimated from the two highest limbs is at most 2
\* too large.
BigDivDigitOf(b, r) ==
    LET estimate == (Limb(r, Len(b) + 1) * Base + Limb(r, Len(b))) \div b[Len(b)]
        highest == IF estimate < Base THEN estimate ELSE Base - 1
        fits(d) == BigCmp(BigMulSmall(b, d), r) <= 0
    IN  IF fits(highest) THEN highest
        ELSE IF fits(highest - 1) THEN highest - 1
        ELSE highest - 2

\* Long division of a by b from limb i of a down, rem being the remainder so
\* far.  The quotient has its most significant limb first.
RECURSIVE BigDivLimbs(_, _, _, _)
BigDivLimbs(a, b, i, rem) ==
    IF i = 0 THEN [q |-> <<>>, r |-> rem]
    ELSE LET r == BigTrim(<<a[i]>> \o rem)
             digit == BigDivDigit(b, r)
             rest == BigDivLimbs(a, b, i - 1, BigSub(r, BigMulSmall(b, digit)))
         IN  [q |-> <<digit>> \o rest.q, r |-> rest.r]

\* Quotient and remainder of a by b # 0
BigDivModOf(a, b) ==
    IF Len(b) = 1 THEN BigDivSmall(a, b[1])
    ELSE LET shift == LimbBits - BitLenOf(b[Len(b)])
             scaled == BigShl(a, shift)
             res == BigDivLimbs(scaled, BigShl(b, shift), Len(scaled), <<>>)
         IN  [q |-> BigTrim([i \in 1..Len(res.q) |-> res.q[Len(res.q) + 1 - i]]),
              r |-> BigShr(res.r, shift)]

NaN == [k |-> "NaN", s |-> 1, m |-> <<>>, e |-> 0]
Infinity == [k |-> "Infinity", s |-> 1, m |-> <<>>, e |-> 0]
NegInfinity == [k |-> "Infinity", s |-> -1, m |-> <<>>, e |-> 0]
Zero == [k |-> "finite", s |-> 1, m |-> <<>>, e |-> 0]

\* null: what JSON.parse gives for a number that JSON.stringify could not
\* write.  In arithmetic and in comparisons null converts to 0.
Null == [k |-> "null", s |-> 1, m |-> <<>>, e |-> 0]

ToNumber(x) == IF x = Null THEN Zero ELSE x

IsNaN(x) == x.k = "NaN"
IsFinite(x) == x.k = "finite"
IsZero(x) == x.k = "finite" /\ x.m = <<>>

\* sign * n * 2^e for a natural number n of at most 53 bits.
CanonicalOf(sign, n, e) ==
    IF n = <<>> THEN Zero
    ELSE LET z == BigTrailingZeros(n)
         IN  [k |-> "finite", s |-> sign, m |-> BigShr(n, z), e |-> e + z]

\* The double nearest to sign * n * 2^e, ties to even.
RoundedOf(sign, n, e) ==
    LET drop == BigBitLen(n) - MantissaBits
    IN  IF drop <= 0 THEN Canonical(sign, n, e)
        ELSE LET kept == BigShr(n, drop)
                 up == /\ BigBit(n, drop - 1) = 1
                       /\ (~BigLowZero(n, drop - 1) \/ BigBit(kept, 0) = 1)
             IN  Canonical(sign, IF up THEN BigAdd(kept, <<1>>) ELSE kept, e + drop)

\* The integer i
NumOf(i) == Canonical(Sign(i), BigOfInt(Abs(i)), 0)

Neg(x) == IF x = Null THEN Zero ELSE IF IsZero(x) \/ IsNaN(x) THEN x ELSE [x EXCEPT !.s = -x.s]

\* -1, 0 or 1 as x <, = or > y, for finite x and y
CompareOf(x, y) ==
    LET sx == IF IsZero(x) THEN 0 ELSE x.s
        sy == IF IsZero(y) THEN 0 ELSE y.s
        low == IF x.e < y.e THEN x.e ELSE y.e
    IN  IF sx # sy THEN (IF sx < sy THEN -1 ELSE 1)
        ELSE IF sx = 0 THEN 0
        ELSE sx * BigCmp(BigShl(x.m, x.e - low), BigShl(y.m, y.e - low))

\* x + y
AddOf(u, v) ==
    LET x == ToNumber(u)
        y == ToNumber(v)
    IN
    IF IsNaN(x) \/ IsNaN(y) THEN NaN
    ELSE IF ~IsFinite(x) /\ ~IsFinite(y) THEN (IF x.s = y.s THEN x ELSE NaN)
    ELSE IF ~IsFinite(x) THEN x
    ELSE IF ~IsFinite(y) THEN y
    ELSE IF IsZero(x) THEN y
    ELSE IF IsZero(y) THEN x
    ELSE LET low == IF x.e < y.e THEN x.e ELSE y.e
             a == BigShl(x.m, x.e - low)
             b == BigShl(y.m, y.e - low)
             c == BigCmp(a, b)
         IN  IF x.s = y.s THEN Rounded(x.s, BigAdd(a, b), low)
             ELSE IF c = 0 THEN Zero
             ELSE IF c > 0 THEN Rounded(x.s, BigSub(a, b), low)
             ELSE Rounded(y.s, BigSub(b, a), low)

Sub(x, y) == Add(x, Neg(y))

\* x * y
MulOf(u, v) ==
    LET x == ToNumber(u)
        y == ToNumber(v)
    IN
    IF IsNaN(x) \/ IsNaN(y) THEN NaN
    ELSE IF ~IsFinite(x) \/ ~IsFinite(y)
         THEN (IF IsZero(x) \/ IsZero(y) THEN NaN
               ELSE IF x.s * y.s > 0 THEN Infinity ELSE NegInfinity)
    ELSE IF IsZero(x) \/ IsZero(y) THEN Zero
    ELSE Rounded(x.s * y.s, BigMul(x.m, y.m), x.e + y.e)

\* x / y
DivOf(u, v) ==
    LET x == ToNumber(u)
        y == ToNumber(v)
    IN
    IF IsNaN(x) \/ IsNaN(y) THEN NaN
    ELSE IF ~IsFinite(y) THEN (IF IsFinite(x) THEN Zero ELSE NaN)
    ELSE IF IsZero(y)
         THEN (IF ~IsFinite(x) THEN x
               ELSE IF IsZero(x) THEN NaN
               ELSE IF x.s > 0 THEN Infinity ELSE NegInfinity)
    ELSE IF ~IsFinite(x)
         THEN (IF x.s * y.s > 0 THEN Infinity ELSE NegInfinity)
    ELSE IF IsZero(x) THEN Zero
    ELSE LET need == MantissaBits + 3 + BigBitLen(y.m) - BigBitLen(x.m)
             shift == IF need > 0 THEN need ELSE 0
             res == BigDivMod(BigShl(x.m, shift), y.m)
             sticky == IF res.r = <<>> THEN <<>> ELSE <<1>>
         IN  Rounded(x.s * y.s, BigAdd(BigMulSmall(res.q, 2), sticky),
                     x.e - y.e - shift - 1)

\* The double nearest to n/d, for integers n and d # 0: what a decimal
\* literal or the division of two integers evaluates to.
FracOf(n, d) == Div(Num(n), Num(d))

\* x < y: false when either is NaN.
Lt(u, v) ==
    LET x == ToNumber(u)
        y == ToNumber(v)
    IN
    IF IsNaN(x) \/ IsNaN(y) THEN FALSE
    ELSE IF ~IsFinite(x) THEN x.s < 0 /\ ~(y = x)
    ELSE IF ~IsFinite(y) THEN y.s > 0
    ELSE Compare(x, y) < 0

\* x <= y: false when either is NaN.
Le(x, y) == ~IsNaN(x) /\ ~IsNaN(y) /\ ~Lt(y, x)

\* Math.min and Math.max: NaN when either argument is NaN.
MathMin(x, y) ==
    IF IsNaN(x) \/ IsNaN(y) THEN NaN ELSE IF Lt(y, x) THEN ToNumber(y) ELSE ToNumber(x)

MathMax(x, y) ==
    IF IsNaN(x) \/ IsNaN(y) THEN NaN ELSE IF Lt(x, y) THEN ToNumber(y) ELSE ToNumber(x)

\* x || y on numbers: y when x is 0, NaN or null.
OrElse(x, y) == IF IsNaN(x) \/ IsZero(x) \/ x = Null THEN y ELSE x

\* s.reduce((sum, x) => sum + x, 0)
RECURSIVE SumSeq(_)
SumSeq(s) ==
    IF s = <<>> THEN Zero ELSE Add(SumSeq(SubSeq(s, 1, Len(s) - 1)), s[Len(s)])
(***************************************************************************)
(* Recommendations handed to the action handler.  Protocol names are the   *)
(* ones the data providers emit ("Ekubo" by the live provider, "ekubo" by  *)
(* the mock provider, "zkLend" by both) and one name the handler does not  *)
(* support.                                                                *)
(***************************************************************************)
ProtocolNames == {"zkLend", "Ekubo", "ekubo", "Nostra"}

toLowerCase(p) ==
    CASE p = "zkLend" -> "zklend"
      [] p = "Ekubo"  -> "ekubo"
      [] p = "ekubo"  -> "ekubo"
      [] p = "Nostra" -> "nostra"
      [] p = "ZKLEND" -> "zklend"
      [] p = "EKUBO"  -> "ekubo"

\* String.prototype.localeCompare on the protocol names: the sign of a
\* comparison in the collation order ekubo < Ekubo < Nostra < zkLend.
collationRank(p) ==
    CASE p = "ekubo"  -> 1
      [] p = "Ekubo"  -> 2
      [] p = "Nostra" -> 3
      [] p = "zkLend" -> 4

localeCompare(a, b) ==
    IF collationRank(a) < collationRank(b) THEN -1
    ELSE IF collationRank(a) > collationRank(b) THEN 1 ELSE 0

confidenceScore(c) ==
    CASE c = "high" -> 3 [] c = "medium" -> 2 [] c = "low" -> 1 [] c = "none" -> 0

Rec(p, t, a, e, c) ==
    [protocol |-> p, token |-> t, amount |-> a, expectedReturn |-> e, confidence |-> c]

RecPool ==
    { Rec("zkLend", "ETH", 600, 9, "high"),
      Rec("zkLend", "USDC", 200, 5, "medium"),
      Rec("Ekubo", "ETH/USDC", 150, 12, "low"),
      Rec("ekubo", "STRK", 100, 7, "medium"),
      Rec("zkLend", "USDT", 0, 16, "none"),
      Rec("Nostra", "ETH", 50, 4, "medium") }

RECURSIVE SeqsUpTo(_, _)
SeqsUpTo(S, n) ==
    IF n = 0 THEN {<<>>}
    ELSE LET shorter == SeqsUpTo(S, n - 1)
         IN  shorter \cup { Append(s, x) : s \in shorter, x \in S }

Range(s) == { s[i] : i \in 1..Len(s) }

\* Recommendation lists without repetition, of at most MaxRecs entries.
RecLists == { s \in SeqsUpTo(RecPool, MaxRecs) : Cardinality(Range(s)) = Len(s) }

\* What evaluator.handler can resolve to: a falsy or malformed value, or a
\* result {recommendations, protocolTotals}.
EvalResults == {[valid |-> FALSE, recommendations |-> <<>>]}
               \cup { [valid |-> TRUE, recommendations |-> l] : l \in RecLists }

\* The error a rejected call is caught with, by the call that rejected.
rejectionOf(call) ==
    IF call = "execute" THEN "account.execute rejected" ELSE "waitForTransaction rejected"

(***************************************************************************)
(* defiEvaluator.handler: the keys of protocolTotals, in insertion order   *)
(* (the order of the first recommendation of each protocol).               *)
(***************************************************************************)
RECURSIVE protocolTotalsKeys(_)
protocolTotalsKeys(recs) ==
    IF recs = <<>> THEN <<>>
    ELSE LET front == protocolTotalsKeys(SubSeq(recs, 1, Len(recs) - 1))
             p == recs[Len(recs)].protocol
         IN  IF p \in Range(front) THEN front ELSE Append(front, p)

(***************************************************************************)
(* executeStrategyAction.handler: the sort of content.recommendations.     *)
(***************************************************************************)
\* The sort's ranking value: (confidenceScore * 0.7) + (expectedReturn * 0.3).
recScore(r) ==
    Add(Mul(Num(confidenceScore(r.confidence)), Frac(7, 10)),
        Mul(Num(r.expectedReturn), Frac(3, 10)))

\* The comparator: negative when a goes before b.
compareRecs(a, b) ==
    IF a.protocol # b.protocol THEN Num(localeCompare(a.protocol, b.protocol))
    ELSE Sub(recScore(b), recScore(a))

\* Array.prototype.sort is stable: x goes after every element that does not
\* compare greater than it.
RECURSIVE insertRec(_, _)
insertRec(s, x) ==
    IF s = <<>> THEN <<x>>
    ELSE IF Lt(Num(0), compareRecs(s[1], x)) THEN <<x>> \o s
    ELSE <<s[1]>> \o insertRec(Tail(s), x)

RECURSIVE sortRecommendations(_)
sortRecommendations(recs) ==
    IF recs = <<>> THEN <<>>
    ELSE insertRec(sortRecommendations(SubSeq(recs, 1, Len(recs) - 1)), recs[Len(recs)])

\* protocolRecs: the recommendations of one key of protocolTotals.
protocolRecs(s, protocol) ==
    SelectSeq(s, LAMBDA rec : toLowerCase(rec.protocol) = toLowerCase(protocol))

\* The protocols the handler has a transaction for.
supportedProtocol(p) == toLowerCase(p) \in {"zklend", "ekubo"}

\* A recommendation the loop body leaves with `continue`, submitting nothing.
skipped(rec) == rec.amount <= 0 \/ ~supportedProtocol(rec.protocol)

\* The two nested loops, run from position (p, r) to the next recommendation
\* that is submitted, or to the end (p = Len(k) + 1).
RECURSIVE nextSubmission(_, _, _, _)
nextSubmission(s, k, p, r) ==
    IF p > Len(k) THEN [pi |-> p, ri |-> 1]
    ELSE LET pr == protocolRecs(s, k[p])
         IN  IF r > Len(pr) THEN nextSubmission(s, k, p + 1, 1)
             ELSE IF skipped(pr[r]) THEN nextSubmission(s, k, p, r + 1)
             ELSE [pi |-> p, ri |-> r]

\* Where the loops go on after the recommendation at (p, r) succeeded.
afterSuccess(s, k, p, r) == nextSubmission(s, k, p, r + 1)

abortAfterFailure(s, k, p, r) == [pi |-> Len(k) + 1, ri |-> 1]

\* Where the loops go on after the submission at (p, r) threw: the catch
\* block of the loop body records the failure and the loop continues.
afterFailure(s, k, p, r) == nextSubmission(s, k, p, r + 1)

currentRec == protocolRecs(sorted, keys[pi])[ri]

\* The entry with the hash of the first submission of the call.
entryOfFirstSubmission(rec, hash) ==
    [protocol |-> rec.protocol, token |-> rec.token, amount |-> rec.amount,
     status |-> "success", txHash |-> 1, error |-> <<>>]

successEntry(rec, hash) ==
    [protocol |-> rec.protocol, token |-> rec.token, amount |-> rec.amount,
     status |-> "success", txHash |-> hash, error |-> <<>>]

failedEntry(rec, message) ==
    [protocol |-> rec.protocol, token |-> rec.token, amount |-> rec.amount,
     status |-> "failed", txHash |-> 0, error |-> message]

(***************************************************************************)
(* StarkNetTransactionHandler.execute                                      *)
(***************************************************************************)
\* The loop condition and the branch of the catch block: another attempt
\* is made while the retry counter is below maxRetries.
retryAllowed(r) == r < maxRetries

\* The error execute throws when the retries are exhausted; it carries the
\* error of the last attempt.
terminalError(err) == <<"Transaction failed after retries", maxRetries, err>>

\* handler.executeZklend / handler.executeEkubo: the call of the protocol
\* built for (token, amount), submitted by one call of execute, whose hash
\* or terminal error is the wrapper's own outcome.
executeProtocol(rec) ==
    [entrypoint |-> IF toLowerCase(rec.protocol) = "zklend" THEN "deposit" ELSE "add_liquidity",
     token |-> rec.token, amount |-> rec.amount, submittedBy |-> "execute"]

(***************************************************************************)
(* AutoClient.makeTrades                                                   *)
(***************************************************************************)
guardIgnored(trading) == TRUE

\* `if (this.isTrading) return;`: a call goes on only with the guard clear.
guardPasses(trading) == ~trading

\* The catch block logs the error; nothing is thrown again.
makeTradesCatch(error) == "logged"

guardClearedOnlyAfterTry(outcome) == outcome = "error"

\* The finally block: the value of the guard after a cycle that left the try
\* block with `outcome`.
makeTradesFinally(outcome) == FALSE

\* A cycle leaves the try block by a throw: catch, then finally.
cycleFails(error) ==
    /\ cpc' = "idle"
    /\ lastOutcome' = "error"
    /\ unhandled' = (unhandled \/ makeTradesCatch(error) = "rethrown")
    /\ isTrading' = makeTradesFinally("error")

\* A cycle reaches the end of the try block: finally.
cycleCompletes ==
    /\ cpc' = "idle"
    /\ lastOutcome' = "completed"
    /\ unhandled' = unhandled
    /\ isTrading' = makeTradesFinally("completed")

\* No handler call is in progress and the value the last one returned has
\* been dropped.
handlerIdle ==
    /\ input' = <<>> /\ sorted' = <<>> /\ keys' = <<>> /\ pi' = 1 /\ ri' = 1
    /\ results' = <<>> /\ invoked' = <<>>

executeIdle ==
    /\ xpc' = "none" /\ retry' = 0 /\ attempts' = 0 /\ waited' = 0 /\ txHash' = 0

\* The handler's loops go on at position pos with the results res: either
\* the next submission starts (execute sets retry = 0 and calls
\* account.execute), or the handler returns and makeTrades ends its cycle.
handlerProceeds(s, k, pos, res, inv) ==
    /\ sorted' = s /\ keys' = k /\ results' = res
    /\ pi' = pos.pi /\ ri' = pos.ri
    /\ IF pos.pi > Len(k)
       THEN /\ cycleCompletes
            /\ active' = active - 1
            /\ executeIdle
            /\ invoked' = inv
       ELSE /\ cpc' = "awaitAction"
            /\ UNCHANGED <<lastOutcome, unhandled, active>>
            /\ isTrading' = TRUE
            /\ xpc' = executeProtocol(protocolRecs(s, k[pos.pi])[pos.ri]).submittedBy
            /\ retry' = 0 /\ attempts' = 1 /\ waited' = 0 /\ txHash' = 0
            /\ invoked' = Append(inv, <<pos.pi, pos.ri>>)

\* The timer callback (and the call of startTradingLoop): makeTrades up to
\* its first await.
makeTrades ==
    /\ UNCHANGED offCycleVars
    /\ interval
    /\ UNCHANGED <<hasEvaluator, hasAction, interval, hung, executeVars>>
    /\ IF ~guardPasses(isTrading)
       THEN /\ lastTick' = "dropped"
            /\ UNCHANGED <<isTrading, cpc, lastOutcome, unhandled, active, handlerVars>>
       ELSE /\ lastTick' = "started"
            /\ handlerIdle
            /\ IF ~hasEvaluator
               THEN /\ cycleFails("Strategy evaluator not found")
                    /\ active' = active
               ELSE /\ isTrading' = TRUE
                    /\ cpc' = "awaitEvaluator"
                    /\ active' = active + 1
                    /\ UNCHANGED <<lastOutcome, unhandled>>

\* evaluator.handler resolves with res; makeTrades validates it, finds the
\* action and calls its handler, which sorts the recommendations and runs to
\* its first submission.
evaluatorResolves ==
    /\ UNCHANGED offCycleVars
    /\ cpc = "awaitEvaluator" /\ ~hung
    /\ \E res \in EvalResults :
         /\ input' = res.recommendations
         /\ IF ~res.valid \/ ~hasAction
            THEN /\ cycleFails(IF ~res.valid THEN "Invalid recommendations format"
                               ELSE "Execute action not found")
                 /\ active' = active - 1
                 /\ UNCHANGED <<sorted, keys, pi, ri, results, invoked, executeVars>>
            ELSE LET s == Evaluate("sortRecommendations", <<res.recommendations>>)
                     k == protocolTotalsKeys(res.recommendations)
                 IN  handlerProceeds(s, k, nextSubmission(s, k, 1, 1), <<>>, <<>>)
    /\ UNCHANGED <<hasEvaluator, hasAction, interval, lastTick, hung>>

\* evaluator.handler rejects.
evaluatorRejects ==
    /\ UNCHANGED offCycleVars
    /\ cpc = "awaitEvaluator" /\ ~hung
    /\ cycleFails("evaluator error")
    /\ active' = active - 1
    /\ UNCHANGED <<hasEvaluator, hasAction, interval, lastTick, hung,
                   handlerVars, executeVars>>

(***************************************************************************)
(* StarkNetTransactionHandler.execute, step by step                        *)
(***************************************************************************)
\* account.execute resolves: the submission is accepted, execute waits for
\* its confirmation.
accountExecuteResolves ==
    /\ UNCHANGED offCycleVars
    /\ cpc = "awaitAction" /\ xpc = "execute" /\ ~hung
    /\ xpc' = "confirm"
    /\ txHash' = attempts
    /\ UNCHANGED <<clientVars, handlerVars, retry, attempts, waited>>

\* waitForTransaction resolves: execute returns the hash, the handler
\* records the success and goes on.
waitForTransactionResolves ==
    /\ UNCHANGED offCycleVars
    /\ cpc = "awaitAction" /\ xpc = "confirm" /\ ~hung
    /\ handlerProceeds(sorted, keys, afterSuccess(sorted, keys, pi, ri),
                       Append(results, successEntry(currentRec, txHash)), invoked)
    /\ input' = input
    /\ UNCHANGED <<hasEvaluator, hasAction, interval, lastTick, hung>>

\* The catch block of execute, entered with err: count the retry, then wait
\* for the delay, or throw the terminal error into the handler's catch block.
executeCatch(err) ==
    IF retryAllowed(retry + 1)
    THEN /\ retry' = retry + 1
         /\ xpc' = "delay"
         /\ waited' = waited + 1
         /\ UNCHANGED <<clientVars, handlerVars, attempts, txHash>>
    ELSE /\ handlerProceeds(sorted, keys, afterFailure(sorted, keys, pi, ri),
                            Append(results, failedEntry(currentRec, terminalError(err))),
                            invoked)
         /\ input' = input
         /\ UNCHANGED <<hasEvaluator, hasAction, interval, lastTick, hung>>

\* account.execute rejects.
accountExecuteRejects ==
    /\ UNCHANGED offCycleVars
    /\ cpc = "awaitAction" /\ xpc = "execute" /\ ~hung
    /\ executeCatch(rejectionOf("execute"))

\* waitForTransaction rejects (the transaction was accepted but reverted or
\* the wait failed).
waitForTransactionRejects ==
    /\ UNCHANGED offCycleVars
    /\ cpc = "awaitAction" /\ xpc = "confirm" /\ ~hung
    /\ executeCatch(rejectionOf("confirm"))

\* The retry delay elapses: the loop calls account.execute again.
retryDelayElapses ==
    /\ UNCHANGED offCycleVars
    /\ cpc = "awaitAction" /\ xpc = "delay"
    /\ xpc' = "execute"
    /\ attempts' = attempts + 1
    /\ UNCHANGED <<clientVars, handlerVars, retry, waited, txHash>>

\* The pending external call (evaluator.handler, account.execute or
\* waitForTransaction) never completes: no timeout is set on any of them.
callHangs ==
    /\ UNCHANGED offCycleVars
    /\ ~hung
    /\ cpc = "awaitEvaluator" \/ (cpc = "awaitAction" /\ xpc \in {"execute", "confirm"})
    /\ hung' = TRUE
    /\ UNCHANGED <<hasEvaluator, hasAction, interval, isTrading, cpc, lastTick,
                   lastOutcome, unhandled, active, handlerVars, executeVars>>

\* AutoClient.stop
stop ==
    /\ UNCHANGED offCycleVars
    /\ interval
    /\ interval' = FALSE
    /\ UNCHANGED <<hasEvaluator, hasAction, isTrading, cpc, lastTick,
                   lastOutcome, unhandled, active, hung, handlerVars, executeVars>>

\* The state after `new AutoClient(runtime)`: the timer is armed and the
\* first makeTrades call has run to its first await.
ClientInit ==
    /\ hasEvaluator \in BOOLEAN
    /\ hasAction \in BOOLEAN
    /\ interval = TRUE
    /\ lastTick = "started"
    /\ unhandled = FALSE /\ hung = FALSE
    /\ isTrading = hasEvaluator
    /\ cpc = IF hasEvaluator THEN "awaitEvaluator" ELSE "idle"
    /\ active = IF hasEvaluator THEN 1 ELSE 0
    /\ lastOutcome = IF hasEvaluator THEN "none" ELSE "error"
    /\ input = <<>> /\ sorted = <<>> /\ keys = <<>> /\ pi = 1 /\ ri = 1
    /\ results = <<>> /\ invoked = <<>>
    /\ xpc = "none" /\ retry = 0 /\ attempts = 0 /\ waited = 0 /\ txHash = 0
(***************************************************************************)
(* investmentStrategy.ts: configuration                                    *)
(***************************************************************************)
RiskLevels == {"LOW", "MEDIUM", "HIGH"}

\* STRATEGY_CONFIGS: maxDrawdown and, for the protocols in declaration
\* order, the allocation bounds in percent.
STRATEGY_CONFIGS(level) ==
    CASE level = "LOW" ->
           [maxDrawdown |-> Frac(5, 100),
            protocols |-> << [key |-> "zkLend", maxAllocation |-> 80, minAllocation |-> 60],
                             [key |-> "ekubo", maxAllocation |-> 20, minAllocation |-> 10] >>]
      [] level = "MEDIUM" ->
           [maxDrawdown |-> Frac(15, 100),
            protocols |-> << [key |-> "zkLend", maxAllocation |-> 65, minAllocation |-> 45],
                             [key |-> "ekubo", maxAllocation |-> 35, minAllocation |-> 25] >>]
      [] level = "HIGH" ->
           [maxDrawdown |-> Frac(30, 100),
            protocols |-> << [key |-> "zkLend", maxAllocation |-> 45, minAllocation |-> 25],
                             [key |-> "ekubo", maxAllocation |-> 55, minAllocation |-> 35] >>]

SUPPORTED_TOKENS == {"ETH", "USDC", "USDT", "STRK"}

\* STARKNET_PROTOCOLS, as key -> value pairs in declaration order.
STARKNET_PROTOCOLS == << <<"EKUBO", "Ekubo">>, <<"ZKLEND", "zkLend">> >>

\* The key of STARKNET_PROTOCOLS whose value equals the pool's protocol,
\* compared in lower case; "undefined" when there is none.
protocolKeyOf(poolProtocol) ==
    LET hits == { i \in 1..Len(STARKNET_PROTOCOLS) :
                     toLowerCase(STARKNET_PROTOCOLS[i][2]) = toLowerCase(poolProtocol) }
    IN  IF hits = {} THEN "undefined"
        ELSE STARKNET_PROTOCOLS[CHOOSE i \in hits : \A j \in hits : i <= j][1]

(***************************************************************************)
(* Scoring functions                                                       *)
(***************************************************************************)
\* sentiment.overall: undefined (NaN in arithmetic and comparisons) when the
\* caller passed the bare number instead of the sentiment object.
overallOf(s) == IF s.isObject THEN s.overall ELSE NaN

\* calculateRiskAdjustedReturn without its final Math.max(0, ...).
unclampedReturn(pool, config) ==
    LET volatility == Div(OrElse(pool.volume24h, Num(0)), OrElse(pool.tvl, Num(1)))
    IN  Mul(Div(Sub(OrElse(pool.apy, Num(0)), Frac(2, 100)), OrElse(volatility, Frac(1, 10))),
            Sub(Num(1), MathMax(Num(0), Sub(MathMin(volatility, Frac(3, 10)),
                                            OrElse(config.maxDrawdown, Frac(15, 100))))))

calculateRiskAdjustedReturn(pool, config) ==
    LET apy == OrElse(pool.apy, Num(0))
        volume == OrElse(pool.volume24h, Num(0))
        tvl == OrElse(pool.tvl, Num(1))
        volatility == Div(volume, tvl)
        sharpeRatio == Div(Sub(apy, Frac(2, 100)), OrElse(volatility, Frac(1, 10)))
        estimatedDrawdown == MathMin(volatility, Frac(3, 10))
        drawdownPenalty ==
            MathMax(Num(0), Sub(estimatedDrawdown, OrElse(config.maxDrawdown, Frac(15, 100))))
    IN  MathMax(Num(0), Mul(sharpeRatio, Sub(Num(1), drawdownPenalty)))

calculateMarketFit(pool, s) ==
    LET sentimentAlignment ==
            IF Lt(Num(0), overallOf(s)) THEN pool.apy ELSE Div(Num(1), pool.volatility)
        volumeScore == MathMin(Div(pool.volume24h, Num(1000000)), Num(1))
        tvlScore == MathMin(Div(pool.tvl, Num(10000000)), Num(1))
    IN  Add(Add(Mul(sentimentAlignment, Frac(4, 10)), Mul(volumeScore, Frac(3, 10))),
            Mul(tvlScore, Frac(3, 10)))

calculatePoolRiskScore(pool) ==
    LET utilizationRisk == Div(pool.totalBorrow, pool.totalSupply)
        volatilityRisk == MathMin(Div(pool.volatility, Num(100)), Num(1))
        tvlRisk == MathMax(Num(0), Sub(Num(1), Div(pool.tvl, Num(10000000))))
    IN  Add(Add(Mul(utilizationRisk, Frac(4, 10)), Mul(volatilityRisk, Frac(3, 10))),
            Mul(tvlRisk, Frac(3, 10)))

(***************************************************************************)
(* generateRecommendations                                                 *)
(***************************************************************************)
\* A pool goes into poolsByProtocol when its token0 is supported and its
\* protocol is one of STARKNET_PROTOCOLS.
eligible(pool) ==
    pool.token0 \in SUPPORTED_TOKENS /\ protocolKeyOf(pool.protocol) # "undefined"

\* poolsByProtocol[key] before scoring: the eligible pools of the key, in
\* input order.
poolsByProtocol(ps, key) ==
    SelectSeq(ps, LAMBDA pool : eligible(pool) /\ protocolKeyOf(pool.protocol) = key)

scored(pool, config, s) ==
    [pool |-> pool,
     riskAdjustedReturn |-> calculateRiskAdjustedReturn(pool, config),
     marketFit |-> calculateMarketFit(pool, s)]

\* The comparator (a, b) => b.riskAdjustedReturn - a.riskAdjustedReturn as
\* Array.prototype.sort reads its result: -1, 0 or 1, NaN counting as 0.
compareScored(a, b) ==
    LET v == Sub(b.riskAdjustedReturn, a.riskAdjustedReturn)
    IN  IF IsNaN(v) THEN 0 ELSE IF Lt(v, Zero) THEN -1 ELSE IF Lt(Zero, v) THEN 1 ELSE 0

\* Array.prototype.sort as Node.js runs it on an array of fewer than 64
\* elements: the run the array starts with is found, and reversed when it
\* descends strictly; every later element is put into the sorted front by
\* binary insertion.  With returns that are all numbers this is the stable
\* sort by descending return; with a NaN return the comparator is not
\* consistent and the order is the one these steps leave.
RECURSIVE runLengthFrom(_, _, _)
runLengthFrom(s, descending, idx) ==
    IF idx > Len(s) THEN Len(s)
    ELSE IF descending = (compareScored(s[idx], s[idx - 1]) < 0)
         THEN runLengthFrom(s, descending, idx + 1)
    ELSE idx - 1

countAndMakeRun(s) ==
    LET descending == compareScored(s[2], s[1]) < 0
        n == runLengthFrom(s, descending, 3)
    IN  [runLength |-> n,
         array |-> IF descending
                   THEN [i \in 1..n |-> s[n + 1 - i]] \o SubSeq(s, n + 1, Len(s))
                   ELSE s]

\* The number of elements of the sorted front s[1..right] the pivot goes
\* after, looked for between left and right.
RECURSIVE insertionPoint(_, _, _, _)
insertionPoint(s, pivot, left, right) ==
    IF left >= right THEN left
    ELSE LET mid == left + (right - left) \div 2
         IN  IF compareScored(pivot, s[mid + 1]) < 0
             THEN insertionPoint(s, pivot, left, mid)
             ELSE insertionPoint(s, pivot, mid + 1, right)

\* Binary insertion of the elements after the first `start`, which are sorted.
RECURSIVE insertScored(_, _)
insertScored(s, start) ==
    IF start >= Len(s) THEN s
    ELSE LET pivot == s[start + 1]
             left == insertionPoint(s, pivot, 0, start)
         IN  insertScored(SubSeq(s, 1, left) \o <<pivot>> \o SubSeq(s, left + 1, start)
                            \o SubSeq(s, start + 2, Len(s)),
                          start + 1)

sortScored(s) ==
    IF Len(s) < 2 THEN s
    ELSE LET run == countAndMakeRun(s) IN insertScored(run.array, run.runLength)

\* poolsByProtocol[key] after scoring and sorting.
rankedPools(ps, key, config, s) ==
    LET group == poolsByProtocol(ps, key)
    IN  Evaluate("sortScored", <<[i \in 1..Len(group) |-> scored(group[i], config, s)]>>)

\* matchingPools of a config protocol: the group whose key equals the
\* protocol in lower case; empty when there is none.
matchingPools(ps, protocol, config, s) ==
    LET hits == { i \in 1..Len(STARKNET_PROTOCOLS) :
                     /\ toLowerCase(STARKNET_PROTOCOLS[i][1]) = toLowerCase(protocol)
                     /\ poolsByProtocol(ps, STARKNET_PROTOCOLS[i][1]) # <<>> }
    IN  IF hits = {} THEN <<>>
        ELSE rankedPools(ps, STARKNET_PROTOCOLS[CHOOSE i \in hits : TRUE][1], config, s)

\* The allocation without the cap at maxAllocation.
uncappedAllocation(protocolConfig, top) ==
    Add(Frac(protocolConfig.minAllocation, 100),
        Mul(top.marketFit, Sub(Frac(protocolConfig.maxAllocation, 100),
                               Frac(protocolConfig.minAllocation, 100))))

\* The fraction of totalAmount given to a protocol whose top pool is `top`.
protocolAllocation(protocolConfig, top) ==
    LET minAllocation == Frac(protocolConfig.minAllocation, 100)
        maxAllocation == Frac(protocolConfig.maxAllocation, 100)
        marketConditionBonus == Mul(top.marketFit, Sub(maxAllocation, minAllocation))
    IN  MathMin(maxAllocation, Add(minAllocation, marketConditionBonus))

\* The pools a protocol's amount is distributed over.
selectedPools(matching) == SubSeq(matching, 1, IF Len(matching) < 3 THEN Len(matching) ELSE 3)

\* The share of the protocol amount a selected pool gets.
poolWeight(sp, totalRiskAdjustedReturn) == Div(sp.riskAdjustedReturn, totalRiskAdjustedReturn)

\* The recommendation pushed for a selected pool.
recommendationFor(sp, amount) ==
    [protocol |-> sp.pool.protocol,
     token |-> IF sp.pool.protocol = "Ekubo"
               THEN <<sp.pool.token0, sp.pool.token1>> ELSE <<sp.pool.token0>>,
     amount |-> amount,
     expectedReturn |-> sp.pool.apy,
     riskScore |-> calculatePoolRiskScore(sp.pool)]

\* The share of the config protocols that have no pools.
unspentShare(ps, config, s) ==
    LET idle == { i \in 1..Len(config.protocols) :
                     matchingPools(ps, config.protocols[i].key, config, s) = <<>> }
    IN  SumSeq([i \in 1..Len(config.protocols) |->
                   IF i \in idle THEN Frac(config.protocols[i].minAllocation, 100) ELSE Num(0)])

recommendationsWithRedistribution(protocolConfig, ps, config, s, total) ==
    LET matching == matchingPools(ps, protocolConfig.key, config, s)
    IN  IF matching = <<>> THEN <<>>
        ELSE LET protocolAmount ==
                     Mul(total, Add(protocolAllocation(protocolConfig, matching[1]),
                                    unspentShare(ps, config, s)))
                 selected == selectedPools(matching)
                 totalRiskAdjustedReturn ==
                     SumSeq([i \in 1..Len(selected) |-> selected[i].riskAdjustedReturn])
             IN  [i \in 1..Len(selected) |->
                     recommendationFor(selected[i],
                         Mul(protocolAmount, poolWeight(selected[i], totalRiskAdjustedReturn)))]

\* The recommendations of one config protocol.
protocolRecommendations(protocolConfig, ps, config, s, total) ==
    LET matching == matchingPools(ps, protocolConfig.key, config, s)
    IN  IF matching = <<>> THEN <<>>
        ELSE LET protocolAmount == Mul(total, protocolAllocation(protocolConfig, matching[1]))
                 selected == selectedPools(matching)
                 totalRiskAdjustedReturn ==
                     SumSeq([i \in 1..Len(selected) |-> selected[i].riskAdjustedReturn])
             IN  [i \in 1..Len(selected) |->
                     recommendationFor(selected[i],
                         Mul(protocolAmount, poolWeight(selected[i], totalRiskAdjustedReturn)))]

RECURSIVE concatProtocols(_, _, _, _, _)
concatProtocols(protocolConfigs, ps, config, s, total) ==
    IF protocolConfigs = <<>> THEN <<>>
    ELSE protocolRecommendations(protocolConfigs[1], ps, config, s, total)
         \o concatProtocols(Tail(protocolConfigs), ps, config, s, total)

generateRecommendations(config, ps, s, total) ==
    concatProtocols(config.protocols, ps, config, s, total)

(***************************************************************************)
(* Inputs of the allocation engine.                                        *)
(***************************************************************************)
Pool(p, t0, t1, apy, tvl, volume24h, volatility, totalBorrow, totalSupply) ==
    [protocol |-> p, token0 |-> t0, token1 |-> t1, apy |-> apy, tvl |-> tvl,
     volume24h |-> volume24h, volatility |-> volatility,
     totalBorrow |-> totalBorrow, totalSupply |-> totalSupply]

\* protocolDataProvider, zkLend data: the record pushed for a pool of the
\* given symbol, supply APY (the compounded supplyAPR), utilizationRate,
\* totalBorrowUSD and totalSupplyUSD.  The record has no token1.
zkLendPool(symbol, supplyAPY, utilizationRate, totalBorrowUSD, totalSupplyUSD) ==
    Pool("zkLend", symbol, "undefined", supplyAPY, totalSupplyUSD,
         Mul(totalBorrowUSD, Frac(1, 10)), Div(utilizationRate, Num(2)),
         totalBorrowUSD, totalSupplyUSD)

\* protocolDataProvider, Ekubo data: the record pushed for a pair with the
\* given apr, volume24h.usd, tvl.usd and token0 supply.
ekuboPool(symbol0, symbol1, apr, volume24hUSD, tvlUSD, supply) ==
    Pool("Ekubo", symbol0, symbol1, OrElse(apr, Num(0)), tvlUSD, volume24hUSD,
         IF Lt(Num(0), tvlUSD)
           THEN MathMin(Mul(Div(volume24hUSD, tvlUSD), Num(100)), Num(100))
           ELSE Num(0),
         Num(0), supply)

\* The protocolDataProvider over mock data names the protocol "ekubo" and
\* gives its record no token1.
mockEkuboPool(symbol0, apr, volume24hUSD, tvlUSD) ==
    Pool("ekubo", symbol0, "undefined", apr, tvlUSD, volume24hUSD,
         Mul(Div(volume24hUSD, tvlUSD), Num(100)), Div(tvlUSD, Num(2)), tvlUSD)

\* Pool records as protocolDataProvider builds them.
PoolUniverse ==
    { zkLendPool("ETH", Num(8), Num(50), Num(1000000), Num(2000000)),
      zkLendPool("USDC", Num(0), Num(0), Num(10000000), Num(10000000)),
      zkLendPool("STRK", Frac(1, 2), Num(0), Num(0), Num(0)),
      ekuboPool("ETH", "USDC", Num(12), Num(1000000), Num(2000000), Num(500)),
      ekuboPool("STRK", "ETH", Num(0), Num(0), Num(10000000), Num(1000)),
      mockEkuboPool("USDC", Num(6), Num(50000), Num(1000000)),
      zkLendPool("DOGE", Num(8), Num(50), Num(1000000), Num(2000000)),
      ekuboPool("WBTC", "ETH", Num(8), Num(100000), Num(2000000), Num(10)) }

PoolLists == SeqsUpTo(PoolUniverse, MaxPools)

Sentiments == { [isObject |-> TRUE, overall |-> Frac(1, 2)],
                [isObject |-> TRUE, overall |-> Num(-1)] }

TotalAmounts == { Num(1000), Num(0), Num(-100) }

\* JSON.stringify writes NaN and the infinities as null.
jsonNumber(x) == IF IsFinite(x) THEN x ELSE Null

\* JSON.parse(JSON.stringify(recommendations))
jsonRoundTrip(recs) ==
    [i \in 1..Len(recs) |->
        [recs[i] EXCEPT !.amount = jsonNumber(@), !.expectedReturn = jsonNumber(@),
                        !.riskScore = jsonNumber(@)]]

(***************************************************************************)
(* Actions of the allocation engine.                                       *)
(***************************************************************************)
\* generateRecommendations called with the sentiment object.
generate ==
    /\ apc = "input"
    /\ recommendations' =
          Evaluate("generateRecommendations", <<riskLevel, pools, sentiment, totalAmount>>)
    /\ apc' = "generated"
    /\ UNCHANGED <<riskLevel, pools, sentiment, totalAmount>>
    /\ UNCHANGED besideAlloc

\* investmentStrategyProvider.get: the amount read from the contract is not
\* negative; generateRecommendations is passed portfolioData.overall, the
\* bare number; the result is returned as JSON.
investmentStrategyProviderGet ==
    /\ apc = "input"
    /\ ~Lt(totalAmount, Zero)
    /\ recommendations' =
          Evaluate("investmentStrategyProvider.get",
                   <<riskLevel, pools, [isObject |-> FALSE, overall |-> sentiment.overall],
                     totalAmount>>)
    /\ apc' = "returned"
    /\ UNCHANGED <<riskLevel, pools, sentiment, totalAmount>>
    /\ UNCHANGED besideAlloc

\* No allocation is in progress.
AllocIdle ==
    /\ riskLevel = "MEDIUM" /\ pools = <<>>
    /\ sentiment = [isObject |-> TRUE, overall |-> Zero]
    /\ totalAmount = Zero /\ apc = "input" /\ recommendations = <<>>

AllocInit ==
    /\ riskLevel \in RiskLevels
    /\ pools \in Evaluate("PoolLists", <<>>)
    /\ sentiment \in Evaluate("Sentiments", <<>>)
    /\ totalAmount \in Evaluate("TotalAmounts", <<>>)
    /\ apc = "input"
    /\ recommendations = <<>>

\* No confidence, portfolio metrics or risk level is being calculated.
EvaluatorIdle ==
    /\ confidenceArgs = <<>> /\ confidenceResult = <<>>
    /\ evaluatorRecs = <<>> /\ evaluatorMetrics = <<>>
    /\ characterName = "undefined" /\ userRiskLevel = "unset"

\* smartContractProvider has not been called.
ContractIdle ==
    /\ positions = <<>> /\ contractRiskLevel = "MEDIUM"
    /\ riskManagement = Evaluate("mockRiskManagement", <<>>)
    /\ portfolioMetrics = <<>> /\ rebalanceCheck = <<>>

\* dataCache as constructed, and no marketProvider.get call made yet.
CacheIdle ==
    /\ now = 0 /\ cache = <<>> /\ mpc = "idle"
    /\ fetches = 0 /\ fetched = <<>> /\ returned = <<>>

\* The metrics-keeping AutoClient before its constructor has run: the
\* values the constructor gives tradingState, no timer and no cycle.
TrackerIdle ==
    /\ tradingState = [isActive |-> FALSE, totalTradesExecuted |-> 0,
                       successfulTrades |-> 0, failedTrades |-> 0, totalVolume |-> 0]
    /\ tpc = "idle" /\ cycleResult = <<>> /\ handlerStatuses = <<>>
    /\ trackerInterval = FALSE

\* The protocol-token keys a recommendation can have.
HistoryKeys == {<<"zkLend", "ETH">>, <<"Ekubo", "STRK">>}

\* recommendationHistory as the module is loaded: no key.
HistoryIdle ==
    /\ recommendationHistory = [key \in HistoryKeys |-> <<>>]
    /\ confidenceLog = [key \in HistoryKeys |-> <<>>]
    /\ enhanced = <<>>

\* No protocol data is being fetched.
FetchIdle ==
    /\ zklendData = <<>> /\ ekuboData = <<>>
    /\ zklendFetch = "none" /\ ekuboFetch = "none"

\* The components outside the trading cycle and the strategy engine are
\* as constructed.
LateIdle == CacheIdle /\ TrackerIdle /\ HistoryIdle

Init == ClientInit /\ LateIdle /\ AllocIdle /\ FetchIdle /\ ContractIdle /\ EvaluatorIdle

cycleStep ==
    \/ evaluatorResolves
    \/ evaluatorRejects
    \/ accountExecuteResolves
    \/ accountExecuteRejects
    \/ waitForTransactionResolves
    \/ waitForTransactionRejects
    \/ retryDelayElapses

Next ==
    \/ makeTrades
    \/ evaluatorResolves
    \/ evaluatorRejects
    \/ accountExecuteResolves
    \/ accountExecuteRejects
    \/ waitForTransactionResolves
    \/ waitForTransactionRejects
    \/ retryDelayElapses
    \/ callHangs
    \/ stop

Spec == Init /\ [][Next]_vars


\* The allocation engine alone: the inputs are drawn, then the engine runs.
InitAlloc == ClientInit /\ LateIdle /\ hasEvaluator /\ hasAction /\ AllocInit /\ FetchIdle /\ ContractIdle /\ EvaluatorIdle

NextAlloc ==
    \/ generate
    \/ investmentStrategyProviderGet

SpecAlloc == InitAlloc /\ [][NextAlloc]_vars

(***************************************************************************)
(* Claims about the trading loop and the execution of recommendations.    *)
(***************************************************************************)

\* C1: at most one makeTrades cycle is active at a time, and a timer tick
\* that arrives while a cycle is active starts nothing: it leaves the guard,
\* the running cycle, the handler and the submission as they are.
C1_AtMostOneCycle ==
    /\ active <= 1
    /\ [][ /\ active' <= 1
           /\ (makeTrades /\ isTrading) =>
                 /\ lastTick' = "dropped"
                 /\ UNCHANGED <<isTrading, cpc, active, lastOutcome, handlerVars, executeVars>>
         ]_vars

C1_Witness == lastTick = "dropped" /\ isTrading /\ cpc = "awaitAction" /\ active = 1

\* C2: a cycle that fails never lets its exception leave makeTrades and
\* leaves the guard cleared: whenever no cycle is running the guard is clear,
\* and the tick that follows a failed cycle passes the guard and starts a
\* new cycle.
C2_FailureClearsGuard ==
    [][ /\ ~unhandled'
        /\ (cpc' = "idle") => ~isTrading'
        /\ (makeTrades /\ cpc = "idle" /\ lastOutcome = "error") =>
              /\ lastTick' = "started"
              /\ hasEvaluator => (cpc' = "awaitEvaluator" /\ isTrading')
      ]_vars

C2_Witness == lastOutcome = "error" /\ cpc = "awaitAction" /\ lastTick = "started"

\* C3: a hung external call does not wedge the guard: whenever the guard is
\* set, the running cycle can still take a step towards clearing it.
C3_NoWedge == isTrading => ENABLED cycleStep

\* The recommendation the handler called the wrapper for at a position of
\* its loops (protocol pass, index in protocolRecs).
recommendationAt(pos) == protocolRecs(sorted, keys[pos[1]])[pos[2]]

\* The entry of the i-th wrapper call of an invocation is the i-th of
\* results.  No wrapper call is made for a recommendation for which an
\* earlier call of the same invocation ended in the terminal error.
NotSubmittedAgainAfterFailure ==
    \A n \in 1..Len(invoked) : \A i \in 1..Len(results) :
        (i < n /\ results[i].status = "failed")
            => recommendationAt(invoked[i]) # recommendationAt(invoked[n])

\* execute makes at most maxRetries (3) submission attempts for one call
\* list, and the failure it reports comes after the third attempt and
\* carries the error of that attempt.
BoundedAttemptsPerCall ==
    [][ /\ attempts' <= maxRetries
        /\ (Len(results') = Len(results) + 1 /\ results'[Len(results')].status = "failed") =>
              /\ attempts = maxRetries
              /\ retry = maxRetries - 1
              /\ results'[Len(results')].error = terminalError(rejectionOf(xpc))
      ]_vars

\* C4: execute makes at most maxRetries (3) submission attempts for one call
\* list; the failure it reports comes after the third attempt and carries the
\* error of that attempt; and the handler does not submit a recommendation
\* again in the same cycle once its submission has failed so.
C4_BoundedRetries ==
    [][ /\ attempts' <= maxRetries
        /\ (Len(results') = Len(results) + 1 /\ results'[Len(results')].status = "failed") =>
              /\ attempts = maxRetries
              /\ retry = maxRetries - 1
              /\ results'[Len(results')].error = terminalError(rejectionOf(xpc))
        /\ NotSubmittedAgainAfterFailure'
      ]_vars

\* Within the pass of one key of protocolTotals no position is submitted
\* twice: a failed recommendation is submitted again only by the pass of
\* another key that selects it.
ResubmittedOnlyByAnotherPass ==
    \A n, m \in 1..Len(invoked) : invoked[n] = invoked[m] => n = m

\* The positions (protocol pass, index in protocolRecs) the loops submit.
submittable ==
    { <<p, r>> \in (1..Len(keys)) \X (1..Len(sorted)) :
         /\ r <= Len(protocolRecs(sorted, keys[p]))
         /\ ~skipped(protocolRecs(sorted, keys[p])[r]) }

handlerReturned == cpc = "idle" /\ lastOutcome = "completed"

\* C5: a failed submission is recorded as a 'failed' entry with the error
\* message for its recommendation, and the handler goes on: when it returns,
\* every recommendation the loops submit has been submitted and has its
\* entry, whatever failed before it.
C5_FailureDoesNotAbort ==
    /\ Len(invoked) = Len(results) + (IF cpc = "awaitAction" THEN 1 ELSE 0)
    /\ \A i \in 1..Len(results) :
          LET rec == protocolRecs(sorted, keys[invoked[i][1]])[invoked[i][2]]
          IN  /\ results[i].protocol = rec.protocol
              /\ results[i].token = rec.token
              /\ results[i].amount = rec.amount
              /\ results[i].status \in {"success", "failed"}
              /\ results[i].status = "failed" => results[i].error # <<>>
    /\ handlerReturned => Range(invoked) = submittable

C5_Witness ==
    /\ handlerReturned
    /\ \E i, j \in 1..Len(results) :
          /\ i < j
          /\ results[i].status = "failed"
          /\ results[i].protocol = results[j].protocol
    /\ \E i, j \in 1..Len(results) :
          /\ i < j
          /\ results[i].status = "failed"
          /\ results[i].protocol # results[j].protocol

(***************************************************************************)
(* Claims about the allocation engine.                                     *)
(***************************************************************************)
configOf == STRATEGY_CONFIGS(riskLevel)

\* The amounts of the recommendations emitted for the config protocol `key`.
amountsOf(key) ==
    LET own == SelectSeq(recommendations,
                         LAMBDA rec : toLowerCase(rec.protocol) = toLowerCase(key))
    IN  [i \in 1..Len(own) |-> own[i].amount]

allAmounts == [i \in 1..Len(recommendations) |-> recommendations[i].amount]

generatedForPositiveTotal == apc = "generated" /\ Lt(Num(0), totalAmount)

\* The bounds and sums of the specification are statements about real
\* numbers, and the code's doubles differ from them by the rounding of each
\* operation: x is at most y, or equal to y, up to that rounding.
RoundingSlack == Frac(1, 1000000)

AtMost(x, y) == Le(x, Add(y, RoundingSlack))

Near(x, y) == AtMost(x, y) /\ AtMost(y, x)

\* C6: for every protocol of the selected config and any totalAmount > 0,
\* the amounts of the recommendations emitted for the protocol sum to at
\* most totalAmount * maxAllocation / 100.
C6_MaxAllocationBound ==
    generatedForPositiveTotal =>
        \A i \in 1..Len(configOf.protocols) :
            AtMost(SumSeq(amountsOf(configOf.protocols[i].key)),
                   Mul(totalAmount, Frac(configOf.protocols[i].maxAllocation, 100)))

\* C7: for each config and any nonempty pool set, the amounts of all the
\* recommendations sum to at most totalAmount.
C7_Conservation ==
    (generatedForPositiveTotal /\ pools # <<>>) => AtMost(SumSeq(allAmounts), totalAmount)

\* C8: whenever at least one pool of a config protocol is selected, the
\* amounts emitted for the protocol sum to at least
\* totalAmount * minAllocation / 100.
C8_MinAllocationBound ==
    generatedForPositiveTotal =>
        \A i \in 1..Len(configOf.protocols) :
            amountsOf(configOf.protocols[i].key) # <<>> =>
                AtMost(Mul(totalAmount, Frac(configOf.protocols[i].minAllocation, 100)),
                       SumSeq(amountsOf(configOf.protocols[i].key)))

\* C9: every emitted recommendation has amount > 0, and a selected pool whose
\* riskAdjustedReturn is 0 gets no recommendation: every protocol gets as
\* many recommendations as it has selected pools of positive
\* riskAdjustedReturn.
C9_OnlyPositiveAmounts ==
    generatedForPositiveTotal =>
        /\ \A i \in 1..Len(recommendations) : Lt(Num(0), recommendations[i].amount)
        /\ \A i \in 1..Len(configOf.protocols) :
              LET selected == selectedPools(matchingPools(pools, configOf.protocols[i].key,
                                                          configOf, sentiment))
              IN  Len(amountsOf(configOf.protocols[i].key)) =
                     Cardinality({j \in 1..Len(selected) :
                                     Lt(Num(0), selected[j].riskAdjustedReturn)})

\* C10: when totalAmount is 0 or negative the allocation step yields no
\* recommendation at all.
C10_EmptyForNonPositiveTotal ==
    (apc # "input" /\ Le(totalAmount, Num(0))) => recommendations = <<>>

\* The weights of a protocol are defined: the riskAdjustedReturn of its
\* selected pools does not sum to 0.
weightsDefined ==
    \A i \in 1..Len(configOf.protocols) :
        LET matching == matchingPools(pools, configOf.protocols[i].key, configOf, sentiment)
            selected == selectedPools(matching)
        IN  matching # <<>> =>
               Lt(Num(0), SumSeq([j \in 1..Len(selected) |-> selected[j].riskAdjustedReturn]))

\* With defined weights the bounds of C6, C7 and C8 hold.
BoundsWithDefinedWeights ==
    (generatedForPositiveTotal /\ weightsDefined) =>
        /\ AtMost(SumSeq(allAmounts), totalAmount)
        /\ \A i \in 1..Len(configOf.protocols) :
              /\ AtMost(SumSeq(amountsOf(configOf.protocols[i].key)),
                        Mul(totalAmount, Frac(configOf.protocols[i].maxAllocation, 100)))
              /\ amountsOf(configOf.protocols[i].key) # <<>> =>
                    AtMost(Mul(totalAmount, Frac(configOf.protocols[i].minAllocation, 100)),
                           SumSeq(amountsOf(configOf.protocols[i].key)))

(***************************************************************************)
(* protocolDataProvider: the two endpoints are fetched under Promise.all,  *)
(* and the evaluator that asks for the strategy catches what is thrown.    *)
(* The data of an endpoint is modelled as the pool records the provider    *)
(* builds from it.                                                         *)
(***************************************************************************)
ProtocolPools(name) == { pool \in PoolUniverse : pool.protocol = name }

\* The pools array: the Ekubo pools are pushed first, then the zkLend pools.
transformedPools(zklend, ekubo) == ekubo \o zklend

\* Promise.all is rejected as soon as one of its promises is.
promiseAllRejected == zklendFetch = "failed" \/ ekuboFetch = "failed"

promiseAllResolved == zklendFetch = "ok" /\ ekuboFetch = "ok"

\* What defiEvaluator.handler returns from its catch block.
evaluatorCatch == <<>>

zklendFetchResolves ==
    /\ zklendFetch = "pending"
    /\ zklendFetch' = "ok"
    /\ UNCHANGED <<zklendData, ekuboData, ekuboFetch, allocVars, besideStrategy>>

zklendFetchRejects ==
    /\ zklendFetch = "pending"
    /\ zklendFetch' = "failed"
    /\ UNCHANGED <<zklendData, ekuboData, ekuboFetch, allocVars, besideStrategy>>

ekuboFetchResolves ==
    /\ ekuboFetch = "pending"
    /\ ekuboFetch' = "ok"
    /\ UNCHANGED <<zklendData, ekuboData, zklendFetch, allocVars, besideStrategy>>

ekuboFetchRejects ==
    /\ ekuboFetch = "pending"
    /\ ekuboFetch' = "failed"
    /\ UNCHANGED <<zklendData, ekuboData, zklendFetch, allocVars, besideStrategy>>

\* Both fetches succeeded: protocolDataProvider returns the pools to
\* investmentStrategyProvider.get.
protocolDataProviderResolves ==
    /\ apc = "fetching"
    /\ promiseAllResolved
    /\ pools' = transformedPools(zklendData, ekuboData)
    /\ apc' = "input"
    /\ UNCHANGED <<riskLevel, sentiment, totalAmount, recommendations, fetchVars, besideStrategy>>

\* A fetch failed: fetchProtocolData, protocolDataProvider and
\* investmentStrategyProvider.get each log and throw again, and
\* defiEvaluator.handler catches.
protocolDataProviderRejects ==
    /\ apc = "fetching"
    /\ promiseAllRejected
    /\ recommendations' = evaluatorCatch
    /\ apc' = "failed"
    /\ UNCHANGED <<riskLevel, pools, sentiment, totalAmount, fetchVars, besideStrategy>>

FetchInit ==
    /\ riskLevel \in RiskLevels
    /\ sentiment \in Evaluate("Sentiments", <<>>)
    /\ totalAmount = Num(1000)
    /\ pools = <<>> /\ recommendations = <<>>
    /\ apc = "fetching"
    /\ zklendData \in SeqsUpTo(Evaluate("ProtocolPools", <<"zkLend">>), MaxPools)
    /\ ekuboData \in SeqsUpTo(Evaluate("ProtocolPools", <<"Ekubo">>), MaxPools)
    /\ zklendFetch = "pending" /\ ekuboFetch = "pending"

InitFetch == ClientInit /\ LateIdle /\ hasEvaluator /\ hasAction /\ FetchInit /\ ContractIdle /\ EvaluatorIdle

NextFetch ==
    \/ zklendFetchResolves
    \/ zklendFetchRejects
    \/ ekuboFetchResolves
    \/ ekuboFetchRejects
    \/ protocolDataProviderResolves
    \/ protocolDataProviderRejects
    \/ investmentStrategyProviderGet

SpecFetch == InitFetch /\ [][NextFetch]_vars

\* The recommendations the engine computes from the pools of the protocols
\* whose data arrived.
fromAvailable(zklend, ekubo) ==
    jsonRoundTrip(generateRecommendations(STRATEGY_CONFIGS(riskLevel),
                      transformedPools(zklend, ekubo),
                      [isObject |-> FALSE, overall |-> sentiment.overall], totalAmount))

\* C11: when the fetch of one protocol fails and the fetch of the other
\* succeeds, the recommendations computed from the available protocol are
\* returned, and none for the failed protocol.
C11_FailedFetchSkipsOnlyItsProtocol ==
    /\ (apc \in {"failed", "returned"} /\ zklendFetch = "failed" /\ ekuboFetch = "ok")
          => recommendations = fromAvailable(<<>>, ekuboData)
    /\ (apc \in {"failed", "returned"} /\ ekuboFetch = "failed" /\ zklendFetch = "ok")
          => recommendations = fromAvailable(zklendData, <<>>)

\* The recommendations of recs that are not for the config protocol `key`.
othersOf(recs, key) ==
    SelectSeq(recs, LAMBDA rec : toLowerCase(rec.protocol) # toLowerCase(key))

\* C12: a config protocol without eligible pools yields no recommendation,
\* and the recommendations of the other protocols are exactly the ones
\* produced when the skipped protocol does have a pool.
C12_SkippedProtocolLeavesOthersAlone ==
    apc = "generated" =>
        \A i \in 1..Len(configOf.protocols) :
            LET key == configOf.protocols[i].key
            IN  matchingPools(pools, key, configOf, sentiment) = <<>> =>
                   /\ amountsOf(key) = <<>>
                   /\ \A q \in PoolUniverse :
                         (eligible(q) /\ toLowerCase(q.protocol) = toLowerCase(key)) =>
                             othersOf(generateRecommendations(configOf, Append(pools, q),
                                                              sentiment, totalAmount), key)
                                = recommendations

C12_Witness ==
    /\ apc = "generated"
    /\ \E i \in 1..Len(configOf.protocols) :
          matchingPools(pools, configOf.protocols[i].key, configOf, sentiment) = <<>>
    /\ \E j \in 1..Len(recommendations) : Lt(Num(0), recommendations[j].amount)

(***************************************************************************)
(* smartContractProvider: calculatePortfolioMetrics, shouldRebalance and   *)
(* getTargetWeights.                                                       *)
(***************************************************************************)
MaxPositions == 4

Position(protocol, token0, token1, value, maxDrawdown) ==
    [protocol |-> protocol, token0 |-> token0, token1 |-> token1,
     value |-> Num(value), riskMetrics |-> [maxDrawdown |-> Num(maxDrawdown)]]

PositionUniverse ==
    << Position("JEDISWAP", "ETH", "USDC", 30, 10),
       Position("SITHSWAP", "STRK", "USDT", 30, 10),
       Position("NOSTRA", "WBTC", "DAI", 30, 12),
       Position("ZKLEND", "LORDS", "WSTETH", 20, 8),
       Position("JEDISWAP", "ETH", "USDC", 5000, 10),
       Position("MYSWAP", "STRK", "ETH", 10, 30),
       Position("ZKLEND", "USDC", "USDC", 40, 5),
       Position("ZKLEND", "LORDS", "WSTETH", 10, 8) >>

\* Position arrays of at most MaxPositions entries, in the order of the
\* universe.
PositionLists ==
    { [k \in 1..Cardinality(I) |->
          PositionUniverse[CHOOSE i \in I : Cardinality({j \in I : j < i}) = k - 1]] :
      I \in { J \in SUBSET (1..Len(PositionUniverse)) : Cardinality(J) <= MaxPositions } }

\* The riskManagement of the provider's mock portfolio state.
mockRiskManagement ==
    [maxDrawdown |-> Num(25), rebalanceThreshold |-> Frac(1, 10),
     diversificationTarget |-> Frac(7, 10)]

RiskManagements ==
    { mockRiskManagement,
      [maxDrawdown |-> Num(25), rebalanceThreshold |-> Frac(3, 20),
       diversificationTarget |-> Frac(3, 5)],
      [maxDrawdown |-> Num(5), rebalanceThreshold |-> Frac(3, 20),
       diversificationTarget |-> Frac(3, 5)] }

\* Math.max(...values): -Infinity without values, NaN when one is NaN.
MathMaxOf(S) ==
    IF \E x \in S : IsNaN(x) THEN NaN
    ELSE IF S = {} THEN NegInfinity
    ELSE CHOOSE x \in S : \A y \in S : ~Lt(x, y)

\* Math.abs
MathAbs(x) == IF Lt(x, Num(0)) THEN Neg(x) ELSE ToNumber(x)

totalValueOf(ps) == SumSeq([i \in 1..Len(ps) |-> ps[i].value])

\* map.set(key, (map.get(key) || 0) + weight) done for the first k of the
\* <<key, weight>> pairs `adds`: the value then held for the key.
RECURSIVE weightAfter(_, _, _)
weightAfter(adds, key, k) ==
    IF k = 0 THEN Num(0)
    ELSE IF adds[k][1] = key
    THEN Add(OrElse(weightAfter(adds, key, k - 1), Num(0)), adds[k][2])
    ELSE weightAfter(adds, key, k - 1)

\* pos.value / totalValue
weightOf(ps, i) == Div(ps[i].value, totalValueOf(ps))

\* protocolWeights: a position adds its weight to its protocol.
protocolWeights(ps) ==
    [p \in { ps[i].protocol : i \in 1..Len(ps) } |->
        weightAfter([i \in 1..Len(ps) |-> <<ps[i].protocol, weightOf(ps, i)>>], p, Len(ps))]

\* tokenWeights: a position adds its weight to token0, then to token1.
tokenWeights(ps) ==
    [t \in { ps[i].token0 : i \in 1..Len(ps) } \cup { ps[i].token1 : i \in 1..Len(ps) } |->
        weightAfter([n \in 1..(2 * Len(ps)) |->
                        <<IF n % 2 = 1 THEN ps[(n + 1) \div 2].token0
                                       ELSE ps[(n + 1) \div 2].token1,
                          weightOf(ps, (n + 1) \div 2)>>],
                    t, 2 * Len(ps))]

calculatePortfolioMetrics(ps) ==
    [totalValue |-> totalValueOf(ps),
     protocolWeights |-> protocolWeights(ps),
     tokenWeights |-> tokenWeights(ps),
     riskMetrics |->
        [maxDrawdown |-> MathMaxOf({ ps[i].riskMetrics.maxDrawdown : i \in 1..Len(ps) }),
         diversificationScore |->
            Sub(Num(1), MathMaxOf({ protocolWeights(ps)[p] : p \in DOMAIN protocolWeights(ps) }
                                  \cup { tokenWeights(ps)[t] : t \in DOMAIN tokenWeights(ps) }))]]

getTargetWeights(level) ==
    CASE level = "LOW" ->
            << <<"JEDISWAP", Frac(3, 10)>>, <<"MYSWAP", Frac(3, 10)>>, <<"ZKLEND", Frac(4, 10)>> >>
      [] level = "MEDIUM" ->
            << <<"JEDISWAP", Frac(4, 10)>>, <<"SITHSWAP", Frac(3, 10)>>, <<"NOSTRA", Frac(3, 10)>> >>
      [] level = "HIGH" ->
            << <<"JEDISWAP", Frac(5, 10)>>, <<"STARKSTARK", Frac(3, 10)>>, <<"SITHSWAP", Frac(2, 10)>> >>

\* currentWeights[protocol] || 0
currentWeight(ps, protocol) ==
    IF protocol \in DOMAIN protocolWeights(ps)
    THEN OrElse(protocolWeights(ps)[protocol], Num(0)) ELSE Num(0)

\* maxDrift: the largest |current - target| over the protocols of the targets.
maxDrift(ps, level) ==
    LET targetWeights == getTargetWeights(level)
    IN  MathMaxOf({ MathAbs(Sub(currentWeight(ps, targetWeights[i][1]), targetWeights[i][2])) :
                    i \in 1..Len(targetWeights) })

driftCheckedFirst(ps, level, rm) ==
    LET metrics == calculatePortfolioMetrics(ps)
    IN  IF Lt(rm.rebalanceThreshold, maxDrift(ps, level))
        THEN [needed |-> TRUE, reason |-> "Position weights drifted beyond threshold"]
        ELSE IF Lt(rm.maxDrawdown, metrics.riskMetrics.maxDrawdown)
        THEN [needed |-> TRUE, reason |-> "Maximum drawdown exceeded"]
        ELSE IF Lt(metrics.riskMetrics.diversificationScore, rm.diversificationTarget)
        THEN [needed |-> TRUE, reason |-> "Portfolio diversification below target"]
        ELSE [needed |-> FALSE, reason |-> "No rebalancing needed"]

shouldRebalance(ps, level, rm) ==
    LET metrics == calculatePortfolioMetrics(ps)
    IN  IF Lt(rm.maxDrawdown, metrics.riskMetrics.maxDrawdown)
        THEN [needed |-> TRUE, reason |-> "Maximum drawdown exceeded"]
        ELSE IF Lt(metrics.riskMetrics.diversificationScore, rm.diversificationTarget)
        THEN [needed |-> TRUE, reason |-> "Portfolio diversification below target"]
        ELSE IF Lt(rm.rebalanceThreshold, maxDrift(ps, level))
        THEN [needed |-> TRUE, reason |-> "Position weights drifted beyond threshold"]
        ELSE [needed |-> FALSE, reason |-> "No rebalancing needed"]

\* smartContractProvider: the metrics are calculated, then the check is made.
smartContractProvider ==
    /\ rebalanceCheck = <<>>
    /\ portfolioMetrics' = Evaluate("calculatePortfolioMetrics", <<positions>>)
    /\ rebalanceCheck' =
          Evaluate("shouldRebalance", <<positions, contractRiskLevel, riskManagement>>)
    /\ UNCHANGED <<positions, contractRiskLevel, riskManagement, besideContract>>

ContractInit ==
    /\ positions \in Evaluate("PositionLists", <<>>)
    /\ contractRiskLevel \in RiskLevels
    /\ riskManagement \in Evaluate("RiskManagements", <<>>)
    /\ portfolioMetrics = <<>> /\ rebalanceCheck = <<>>

InitContract ==
    /\ ClientInit /\ LateIdle /\ hasEvaluator /\ hasAction
    /\ AllocIdle /\ FetchIdle /\ ContractInit /\ EvaluatorIdle

NextContract == smartContractProvider

SpecContract == InitContract /\ [][NextContract]_vars

(***************************************************************************)
(* Claims about shouldRebalance.                                           *)
(***************************************************************************)
checked == rebalanceCheck # <<>>

drawdownExceeded ==
    Lt(riskManagement.maxDrawdown, portfolioMetrics.riskMetrics.maxDrawdown)

diversificationBelowTarget ==
    Lt(portfolioMetrics.riskMetrics.diversificationScore, riskManagement.diversificationTarget)

\* The weight portfolioMetrics gives a protocol and the weight the targets
\* of the risk level give it; 0 where the protocol is not held or has no
\* target.
heldWeight(p) ==
    IF p \in DOMAIN portfolioMetrics.protocolWeights
    THEN portfolioMetrics.protocolWeights[p] ELSE Num(0)

targetWeight(p) ==
    LET targets == getTargetWeights(contractRiskLevel)
        hits == { i \in 1..Len(targets) : targets[i][1] = p }
    IN  IF hits = {} THEN Num(0) ELSE targets[CHOOSE i \in hits : TRUE][2]

driftedBeyondThreshold(p) ==
    Lt(riskManagement.rebalanceThreshold, MathAbs(Sub(heldWeight(p), targetWeight(p))))

targetProtocols ==
    { getTargetWeights(contractRiskLevel)[i][1] :
         i \in 1..Len(getTargetWeights(contractRiskLevel)) }

heldProtocols == { positions[i].protocol : i \in 1..Len(positions) }

\* C13: the reason names the first condition that holds in the order
\* drawdown, diversification, weight drift, also when several hold; the
\* result is a function of positions, risk level and riskManagement.
C13_FirstConditionNamed ==
    checked =>
        /\ rebalanceCheck.reason = "Maximum drawdown exceeded" <=> drawdownExceeded
        /\ rebalanceCheck.reason = "Portfolio diversification below target"
              <=> (~drawdownExceeded /\ diversificationBelowTarget)
        /\ rebalanceCheck.reason = "Position weights drifted beyond threshold"
              <=> /\ ~drawdownExceeded /\ ~diversificationBelowTarget
                  /\ \E p \in targetProtocols : driftedBeyondThreshold(p)
        /\ rebalanceCheck = shouldRebalance(positions, contractRiskLevel, riskManagement)

\* All three conditions hold at once and the drawdown is the one named.
C13_Witness ==
    /\ checked
    /\ drawdownExceeded /\ diversificationBelowTarget
    /\ \E p \in targetProtocols : driftedBeyondThreshold(p)
    /\ rebalanceCheck.reason = "Maximum drawdown exceeded"

\* C14: needed is true exactly when the drawdown exceeds maxDrawdown, or the
\* diversification score is below the target, or the weight of some
\* protocol, held or present in the targets, is further than
\* rebalanceThreshold from its target weight.
C14_NeededIffSomeConditionHolds ==
    checked =>
        (rebalanceCheck.needed <=>
            \/ drawdownExceeded
            \/ diversificationBelowTarget
            \/ \E p \in heldProtocols \cup targetProtocols : driftedBeyondThreshold(p))

(***************************************************************************)
(* Confidence: calculateConfidenceScore of the strategy provider, and the  *)
(* two calculateConfidence functions that turn a score into a label.       *)
(***************************************************************************)
\* A pool as calculateConfidenceScore reads it: its historicalAccuracy,
\* the names of the fields it has, and Date.now() - (lastUpdate || 0).
ConfidencePools ==
    [historicalAccuracy : { Num(0), Frac(1, 10), Frac(1, 2), Frac(9, 10), Num(1) },
     fields : { {"apy", "tvl", "volume24h", "historicalAccuracy"},
                {"protocol", "token0", "apy", "volatility", "maxDrawdown", "volume24h",
                 "tvl", "totalBorrow", "totalSupply", "historicalAccuracy", "lastUpdate",
                 "riskAdjustedReturn", "marketFit"},
                {"protocol", "token0", "apy", "volatility", "maxDrawdown", "volume24h",
                 "tvl", "liquidity", "totalSupply", "historicalAccuracy", "lastUpdate",
                 "riskAdjustedReturn", "marketFit"} },
     age : { 60000, 7200000 }]

\* The performance history of a recommendation; RecommendationEngine may
\* find none (null).
Histories ==
    [isNull : { TRUE }, successRate : { Num(0) }, averageReturn : { Num(0) },
     totalRecommendations : { 0 }] \cup
    [isNull : { FALSE },
     successRate : { Num(1), Frac(4, 5), Frac(1, 2), Frac(1, 10) },
     averageReturn : { Num(8), Num(0) },
     totalRecommendations : { 0, 5, 10, 30 }]

\* The market context defiEvaluator.handler passes to the engine: a constant
\* but for its timestamp, which no calculation reads.
MarketContexts ==
    { [overallSentiment |-> "neutral", volatilityIndex |-> 50, trendStrength |-> 60] }

ConfidenceArgs ==
    [pool : ConfidencePools,
     sentiment : { [overall |-> Num(-1)], [overall |-> Num(0)], [overall |-> Frac(1, 2)] },
     history : Histories,
     recommendation : { [expectedReturn |-> Num(8)], [expectedReturn |-> Num(5)],
                        [expectedReturn |-> Num(0)] },
     marketContext : MarketContexts]

calculateDataQuality(pool) ==
    LET hasRequiredFields == {"apy", "tvl", "volume24h", "liquidity"} \subseteq pool.fields
        dataFreshness == pool.age < 3600000
        dataCompleteness == Frac(Cardinality(pool.fields), 10)
    IN  Add(Add(IF hasRequiredFields THEN Frac(4, 10) ELSE Num(0),
                IF dataFreshness THEN Frac(3, 10) ELSE Num(0)),
            Mul(MathMin(dataCompleteness, Num(1)), Frac(3, 10)))

calculateConfidenceScore(pool, s) ==
    LET marketAlignment == Add(Frac(1, 2), Mul(s.overall, Frac(1, 2)))
        dataQuality == calculateDataQuality(pool)
        historicalAccuracy == OrElse(pool.historicalAccuracy, Frac(1, 2))
    IN  Add(Add(Mul(marketAlignment, Frac(4, 10)), Mul(dataQuality, Frac(3, 10))),
            Mul(historicalAccuracy, Frac(3, 10)))

\* score >= threshold
AtLeast(score, threshold) == Le(threshold, score)

\* Math.max(0, 1 - |averageReturn - expectedReturn| / averageReturn)
returnScoreOf(history, rec) ==
    MathMax(Num(0), Sub(Num(1), Div(MathAbs(Sub(history.averageReturn, rec.expectedReturn)),
                                    history.averageReturn)))

\* confidenceScore of the history-based evaluator's calculateConfidence.
historyConfidenceScore(history, rec) ==
    Add(Add(Mul(history.successRate, Frac(4, 10)),
            Mul(returnScoreOf(history, rec), Frac(3, 10))),
        Mul(MathMin(Num(1), Frac(history.totalRecommendations, 10)), Frac(3, 10)))

mediumFromOneHalf(history, rec) ==
    LET score == historyConfidenceScore(history, rec)
    IN  IF AtLeast(score, Frac(8, 10)) THEN "high"
        ELSE IF AtLeast(score, Frac(5, 10)) THEN "medium"
        ELSE IF AtLeast(score, Frac(3, 10)) THEN "low"
        ELSE "none"

calculateConfidence(history, rec) ==
    LET score == historyConfidenceScore(history, rec)
    IN  IF AtLeast(score, Frac(8, 10)) THEN "high"
        ELSE IF AtLeast(score, Frac(6, 10)) THEN "medium"
        ELSE IF AtLeast(score, Frac(3, 10)) THEN "low"
        ELSE "none"

calculateMarketAlignmentScore(marketContext) ==
    LET sentimentScore == CASE marketContext.overallSentiment = "bearish" -> Frac(3, 10)
                            [] marketContext.overallSentiment = "neutral" -> Frac(5, 10)
                            [] marketContext.overallSentiment = "bullish" -> Frac(7, 10)
        volatilityScore == Sub(Num(1), Frac(marketContext.volatilityIndex, 100))
        trendScore == Frac(marketContext.trendStrength, 100)
    IN  Div(Add(Add(sentimentScore, volatilityScore), trendScore), Num(3))

\* confidenceScore of RecommendationEngine.calculateConfidence.
engineConfidenceScore(history, recommendation, marketContext) ==
    Add(Add(Add(Mul(history.successRate, Frac(3, 10)),
                Mul(returnScoreOf(history, recommendation), Frac(2, 10))),
            Mul(MathMin(Num(1), Frac(history.totalRecommendations, 20)), Frac(2, 10))),
        Mul(calculateMarketAlignmentScore(marketContext), Frac(3, 10)))

engineCalculateConfidence(history, recommendation, marketContext) ==
    IF history.isNull THEN "none"
    ELSE LET score == engineConfidenceScore(history, recommendation, marketContext)
         IN  IF AtLeast(score, Frac(8, 10)) THEN "high"
             ELSE IF AtLeast(score, Frac(6, 10)) THEN "medium"
             ELSE IF AtLeast(score, Frac(3, 10)) THEN "low"
             ELSE "none"

\* generateRecommendations calculates the confidence of a selected pool.
poolConfidence ==
    /\ confidenceResult = <<>>
    /\ confidenceResult' =
          [by |-> "calculateConfidenceScore",
           score |-> Evaluate("calculateConfidenceScore",
                         <<confidenceArgs.pool, confidenceArgs.sentiment>>)]
    /\ UNCHANGED <<confidenceArgs, besideConfidence>>

\* defiEvaluator.handler calculates the confidence of a recommendation.
historyConfidence ==
    /\ confidenceResult = <<>>
    /\ ~confidenceArgs.history.isNull
    /\ confidenceResult' =
          [by |-> "calculateConfidence",
           score |-> Evaluate("historyConfidenceScore",
                         <<confidenceArgs.history, confidenceArgs.recommendation>>),
           label |-> Evaluate("calculateConfidence",
                         <<confidenceArgs.history, confidenceArgs.recommendation>>)]
    /\ UNCHANGED <<confidenceArgs, besideConfidence>>

\* RecommendationEngine.enhanceRecommendations calculates the confidence.
engineConfidence ==
    /\ confidenceResult = <<>>
    /\ confidenceResult' =
          [by |-> "RecommendationEngine.calculateConfidence",
           score |-> IF confidenceArgs.history.isNull THEN <<>>
                     ELSE Evaluate("engineConfidenceScore",
                              <<confidenceArgs.history, confidenceArgs.recommendation,
                                confidenceArgs.marketContext>>),
           label |-> Evaluate("engineCalculateConfidence",
                         <<confidenceArgs.history, confidenceArgs.recommendation,
                           confidenceArgs.marketContext>>)]
    /\ UNCHANGED <<confidenceArgs, besideConfidence>>

InitConfidence ==
    /\ ClientInit /\ LateIdle /\ hasEvaluator /\ hasAction
    /\ AllocIdle /\ FetchIdle /\ ContractIdle
    /\ confidenceArgs \in Evaluate("ConfidenceArgs", <<>>) /\ confidenceResult = <<>>
    /\ evaluatorRecs = <<>> /\ evaluatorMetrics = <<>>
    /\ characterName = "undefined" /\ userRiskLevel = "unset"

NextConfidence ==
    \/ poolConfidence
    \/ historyConfidence
    \/ engineConfidence

SpecConfidence == InitConfidence /\ [][NextConfidence]_vars

(***************************************************************************)
(* Claims about the confidence score and label.                            *)
(***************************************************************************)
\* The ladder of the specification: >= 0.8 high, >= 0.6 medium, >= 0.3 low,
\* else none; and the rank of a label in none < low < medium < high.
labelOfScore(score) ==
    IF Le(Frac(8, 10), score) THEN "high"
    ELSE IF Le(Frac(6, 10), score) THEN "medium"
    ELSE IF Le(Frac(3, 10), score) THEN "low"
    ELSE "none"

labelRank(label) ==
    CASE label = "none" -> 0 [] label = "low" -> 1 [] label = "medium" -> 2
      [] label = "high" -> 3

scoredBy(name) == confidenceResult # <<>> /\ confidenceResult.by = name

\* C15: with the sentiment and the other pool fields fixed, a larger
\* historicalAccuracy in [0, 1] never gives a lower confidence label.
C15_AccuracyNeverLowersLabel ==
    scoredBy("calculateConfidenceScore") =>
        \A higher \in { p.historicalAccuracy : p \in ConfidencePools } :
            Le(confidenceArgs.pool.historicalAccuracy, higher) =>
                labelRank(labelOfScore(confidenceResult.score))
                   <= labelRank(labelOfScore(calculateConfidenceScore(
                          [confidenceArgs.pool EXCEPT !.historicalAccuracy = higher],
                          confidenceArgs.sentiment)))

\* C16: the label of both calculateConfidence functions is the one the
\* ladder gives their score.
C16_LabelFollowsLadder ==
    /\ scoredBy("calculateConfidence") =>
          confidenceResult.label = labelOfScore(confidenceResult.score)
    /\ (scoredBy("RecommendationEngine.calculateConfidence") /\ ~confidenceArgs.history.isNull) =>
          confidenceResult.label = labelOfScore(confidenceResult.score)

\* A score between 0.5 and 0.6 labelled low by the history-based function.
C16_Witness ==
    /\ scoredBy("calculateConfidence")
    /\ Le(Frac(5, 10), confidenceResult.score) /\ Lt(confidenceResult.score, Frac(6, 10))
    /\ confidenceResult.label = "low"

(***************************************************************************)
(* Claims about the scores of a pool.                                      *)
(***************************************************************************)
nonNegativeFields(pool) ==
    \A x \in { pool.apy, pool.tvl, pool.volume24h, pool.totalBorrow, pool.totalSupply,
               pool.volatility } : IsFinite(x) /\ Le(Num(0), x)

poolsScored ==
    IF apc = "input" THEN {}
    ELSE { pools[i] : i \in { j \in 1..Len(pools) : nonNegativeFields(pools[j]) } }

\* C17: for a pool whose numeric fields are finite and not negative, with
\* any of the three configs, calculateRiskAdjustedReturn and
\* calculatePoolRiskScore do not return a negative value.
C17_ScoresNeverNegative ==
    \A pool \in poolsScored :
        /\ ~Lt(calculateRiskAdjustedReturn(pool, configOf), Num(0))
        /\ ~Lt(calculatePoolRiskScore(pool), Num(0))

\* A generated allocation over a pool whose apy is below the risk-free rate,
\* so that the Sharpe ratio is negative and the return is clamped to 0.
C17_Witness ==
    \E pool \in poolsScored :
        /\ Lt(pool.apy, Frac(2, 100))
        /\ calculateRiskAdjustedReturn(pool, configOf) = Num(0)
        /\ IsFinite(calculatePoolRiskScore(pool))

(***************************************************************************)
(* calculatePortfolioMetrics of the DeFi evaluator (defiEvaluator.ts),     *)
(* beside the one of smartContractProvider above.                          *)
(***************************************************************************)
RecommendationUniverse ==
    << [protocol |-> "zkLend", token |-> "ETH", amount |-> Num(100), riskLevel |-> "LOW",
        expectedReturn |-> Num(8)],
       [protocol |-> "zkLend", token |-> "ETH", amount |-> Num(300), riskLevel |-> "MEDIUM",
        expectedReturn |-> Num(4)],
       [protocol |-> "Ekubo", token |-> "ETH", amount |-> Num(400), riskLevel |-> "HIGH",
        expectedReturn |-> Num(12)],
       [protocol |-> "Ekubo", token |-> "USDC", amount |-> Num(800), riskLevel |-> "LOW",
        expectedReturn |-> Num(6)],
       [protocol |-> "zkLend", token |-> "STRK", amount |-> Num(1600), riskLevel |-> "HIGH",
        expectedReturn |-> Num(0)],
       [protocol |-> "Nostra", token |-> "USDC", amount |-> Num(100), riskLevel |-> "MEDIUM",
        expectedReturn |-> Num(2)],
       [protocol |-> "Ekubo", token |-> "USDC", amount |-> Null, riskLevel |-> "HIGH",
        expectedReturn |-> Num(4)] >>

\* Recommendation arrays of at most MaxPositions entries, in the order of the
\* universe.
RecommendationLists ==
    { [k \in 1..Cardinality(I) |->
          RecommendationUniverse[CHOOSE i \in I : Cardinality({j \in I : j < i}) = k - 1]] :
      I \in { J \in SUBSET (1..Len(RecommendationUniverse)) : Cardinality(J) <= MaxPositions } }

\* exposure[name] after the first k recommendations, names[i] being the key of
\* the i-th: exposure[name] = (exposure[name] || 0) + amount / totalValue.
RECURSIVE exposureAfter(_, _, _, _)
exposureAfter(recs, names, name, k) ==
    IF k = 0 THEN Num(0)
    ELSE IF names[k] = name
    THEN Add(OrElse(exposureAfter(recs, names, name, k - 1), Num(0)),
             Div(recs[k].amount, SumSeq([i \in 1..Len(recs) |-> recs[i].amount])))
    ELSE exposureAfter(recs, names, name, k - 1)

\* The exposure object: <<name, fraction>> in the order the names were first
\* written.
exposureOf(recs, names) ==
    LET first(i) == \A j \in 1..(i - 1) : names[j] # names[i]
        firsts == SelectSeq([i \in 1..Len(recs) |-> i], first)
    IN  [n \in 1..Len(firsts) |->
            <<names[firsts[n]], exposureAfter(recs, names, names[firsts[n]], Len(recs))>>]

\* 1 - HHI for the protocols and for the tokens, averaged.
calculateDiversificationScore(protocolExposure, tokenExposure) ==
    LET HHI(exposure) ==
            SumSeq([n \in 1..Len(exposure) |-> Mul(exposure[n][2], exposure[n][2])])
    IN  Div(Add(Sub(Num(1), HHI(protocolExposure)), Sub(Num(1), HHI(tokenExposure))), Num(2))

evaluatorCalculatePortfolioMetrics(recs) ==
    LET totalValue == SumSeq([i \in 1..Len(recs) |-> recs[i].amount])
        share(i) == Div(recs[i].amount, totalValue)
        riskScores(level) == CASE level = "LOW" -> 1 [] level = "MEDIUM" -> 2 [] level = "HIGH" -> 3
        protocolExposure == exposureOf(recs, [i \in 1..Len(recs) |-> recs[i].protocol])
        tokenExposure == exposureOf(recs, [i \in 1..Len(recs) |-> recs[i].token])
    IN  [totalValue |-> totalValue,
         weightedRisk |->
            SumSeq([i \in 1..Len(recs) |-> Mul(Num(riskScores(recs[i].riskLevel)), share(i))]),
         expectedReturn |->
            SumSeq([i \in 1..Len(recs) |-> Mul(recs[i].expectedReturn, share(i))]),
         diversificationScore |-> calculateDiversificationScore(protocolExposure, tokenExposure),
         protocolExposure |-> protocolExposure,
         tokenExposure |-> tokenExposure]

\* defiEvaluator.handler: the portfolio-level metrics of its recommendations.
defiEvaluatorMetrics ==
    /\ evaluatorMetrics = <<>>
    /\ evaluatorMetrics' = Evaluate("evaluatorCalculatePortfolioMetrics", <<evaluatorRecs>>)
    /\ UNCHANGED <<evaluatorRecs, besideMetrics>>

\* Both portfolio-metrics implementations, each on its own input, the other
\* one being given no entries; the risk management of the contract is the
\* one of smartContractProvider.
InitMetrics ==
    /\ ClientInit /\ LateIdle /\ hasEvaluator /\ hasAction
    /\ AllocIdle /\ FetchIdle
    /\ positions \in Evaluate("PositionLists", <<>>) /\ contractRiskLevel = "MEDIUM"
    /\ (positions = <<>> \/ evaluatorRecs = <<>>)
    /\ riskManagement = Evaluate("mockRiskManagement", <<>>)
    /\ portfolioMetrics = <<>> /\ rebalanceCheck = <<>>
    /\ confidenceArgs = <<>> /\ confidenceResult = <<>>
    /\ evaluatorRecs \in Evaluate("RecommendationLists", <<>>) /\ evaluatorMetrics = <<>>
    /\ characterName = "undefined" /\ userRiskLevel = "unset"

NextMetrics == defiEvaluatorMetrics \/ smartContractProvider

SpecMetrics == InitMetrics /\ [][NextMetrics]_vars

(***************************************************************************)
(* Claims about the portfolio metrics.                                     *)
(***************************************************************************)
\* The evaluator has calculated the metrics of a nonempty set of
\* recommendations with positive amounts.
evaluatorMeasured ==
    /\ evaluatorMetrics # <<>> /\ evaluatorRecs # <<>>
    /\ \A i \in 1..Len(evaluatorRecs) : Lt(Num(0), evaluatorRecs[i].amount)

contractMeasured == portfolioMetrics # <<>> /\ positions # <<>>

inUnitInterval(x) == AtMost(Num(0), x) /\ AtMost(x, Num(1))

\* All recommendations name one protocol and one token.
oneProtocolOneToken ==
    /\ Cardinality({ evaluatorRecs[i].protocol : i \in 1..Len(evaluatorRecs) }) = 1
    /\ Cardinality({ evaluatorRecs[i].token : i \in 1..Len(evaluatorRecs) }) = 1

\* All positions are in one protocol and hold one token.
onePositionProtocolOneToken ==
    /\ Cardinality({ positions[i].protocol : i \in 1..Len(positions) }) = 1
    /\ Cardinality({ positions[i].token0 : i \in 1..Len(positions) }
                   \cup { positions[i].token1 : i \in 1..Len(positions) }) = 1

\* The diversification score of the evaluator is in [0, 1], and 0 for a
\* single protocol and token.
EvaluatorDiversificationInUnitInterval ==
    evaluatorMeasured =>
        /\ inUnitInterval(evaluatorMetrics.diversificationScore)
        /\ oneProtocolOneToken => Near(evaluatorMetrics.diversificationScore, Num(0))

\* C18: for a nonempty set of recommendations or positions with positive
\* amounts, the diversificationScore of calculatePortfolioMetrics is in
\* [0, 1], and it is 0 when all value is in one protocol and one token.
C18_DiversificationInUnitInterval ==
    /\ EvaluatorDiversificationInUnitInterval
    /\ contractMeasured =>
        /\ inUnitInterval(portfolioMetrics.riskMetrics.diversificationScore)
        /\ onePositionProtocolOneToken =>
              Near(portfolioMetrics.riskMetrics.diversificationScore, Num(0))

RECURSIVE sumOfValues(_, _)
sumOfValues(f, S) ==
    IF S = {} THEN Num(0)
    ELSE LET x == CHOOSE y \in S : TRUE IN Add(f[x], sumOfValues(f, S \ {x}))

\* The exposure fractions of the evaluator sum to 1 in each map.
EvaluatorExposuresSumToOne ==
    evaluatorMeasured =>
        /\ Near(SumSeq([n \in 1..Len(evaluatorMetrics.protocolExposure) |->
                           evaluatorMetrics.protocolExposure[n][2]]), Num(1))
        /\ Near(SumSeq([n \in 1..Len(evaluatorMetrics.tokenExposure) |->
                           evaluatorMetrics.tokenExposure[n][2]]), Num(1))

\* C19: for a nonempty set of positions with positive amounts, the protocol
\* fractions sum to 1 and the token fractions sum to 1, in both
\* implementations.
C19_ExposuresSumToOne ==
    /\ EvaluatorExposuresSumToOne
    /\ contractMeasured =>
        /\ Near(sumOfValues(portfolioMetrics.protocolWeights,
                             DOMAIN portfolioMetrics.protocolWeights), Num(1))
        /\ Near(sumOfValues(portfolioMetrics.tokenWeights,
                             DOMAIN portfolioMetrics.tokenWeights), Num(1))

(***************************************************************************)
(* The risk level of a character: investmentStrategyProvider.get and        *)
(* strategyEvaluator.handler.  A name is its sequence of characters.       *)
(***************************************************************************)
\* runtime.character?.name: the names of some characters, the empty name, and
\* no name at all.
CharacterNames ==
    { [isUndefined |-> FALSE, chars |-> c] : c \in {
        <<"C", "o", "n", "s", "e", "r", "v", "a", "t", "i", "v", "e">>,
        <<"S", "t", "a", "r", "k", "N", "e", "t", " ", "A", "g", "g", "r", "e", "s", "s", "i", "v", "e">>,
        <<"m", "o", "d", "e", "r", "a", "t", "e">>,
        <<"M", "O", "D", "E", "R", "A", "T", "E", " ", "T", "r", "a", "d", "e", "r">>,
        <<"S", "h", "i", "k", "a", "m", "a", "r", "u">>,
        <<"C", "o", "n", "s", "e", "r", "v", "a", "t", "i", "v">>,
        <<"M", "o", "d", "e", "r", "a", "t", "e", "-", "A", "g", "g", "r", "e", "s", "s", "i", "v", "e">>,
        <<"A", "g", "g", "r", "e", "s", "s", "i", "v", "e", " ", "b", "u", "t", " ", "c", "o", "n", "s", "e", "r", "v", "a", "t", "i", "v", "e">>,
        <<>> } }
      \cup { [isUndefined |-> TRUE, chars |-> <<>>] }

\* String.prototype.toLowerCase on a sequence of characters, for the letters
\* A to Z.
charsToLowerCase(s) ==
    LET upper == <<"A", "B", "C", "D", "E", "F", "G", "H", "I", "J", "K", "L", "M", "N", "O", "P", "Q", "R", "S", "T", "U", "V", "W", "X", "Y", "Z">>
        lower == <<"a", "b", "c", "d", "e", "f", "g", "h", "i", "j", "k", "l", "m", "n", "o", "p", "q", "r", "s", "t", "u", "v", "w", "x", "y", "z">>
    IN  [i \in 1..Len(s) |->
            IF \E k \in 1..26 : upper[k] = s[i]
            THEN lower[CHOOSE k \in 1..26 : upper[k] = s[i]] ELSE s[i]]

\* String.prototype.includes
includes(s, search) ==
    \E start \in 0..(Len(s) - Len(search)) :
        \A i \in 1..Len(search) : s[start + i] = search[i]

\* character?.name?.toLowerCase() || ''
characterNameOf(character) ==
    IF character.isUndefined THEN <<>> ELSE charsToLowerCase(character.chars)

\* The classification without toLowerCase.
caseSensitiveRiskLevel(character) ==
    IF includes(character.chars, <<"c", "o", "n", "s", "e", "r", "v", "a", "t", "i", "v", "e">>) THEN "LOW"
    ELSE IF includes(character.chars, <<"m", "o", "d", "e", "r", "a", "t", "e">>) THEN "MEDIUM"
    ELSE IF includes(character.chars, <<"a", "g", "g", "r", "e", "s", "s", "i", "v", "e">>) THEN "HIGH"
    ELSE "MEDIUM"

\* investmentStrategyProvider.get: userRiskLevel
userRiskLevelOf(character) ==
    IF includes(characterNameOf(character), <<"c", "o", "n", "s", "e", "r", "v", "a", "t", "i", "v", "e">>) THEN "LOW"
    ELSE IF includes(characterNameOf(character), <<"m", "o", "d", "e", "r", "a", "t", "e">>) THEN "MEDIUM"
    ELSE IF includes(characterNameOf(character), <<"a", "g", "g", "r", "e", "s", "s", "i", "v", "e">>) THEN "HIGH"
    ELSE "MEDIUM"

\* strategyEvaluator.handler: riskLevel
strategyRiskLevelOf(character) ==
    IF includes(characterNameOf(character), <<"c", "o", "n", "s", "e", "r", "v", "a", "t", "i", "v", "e">>) THEN "conservative"
    ELSE IF includes(characterNameOf(character), <<"a", "g", "g", "r", "e", "s", "s", "i", "v", "e">>) THEN "aggressive"
    ELSE "moderate"

\* investmentStrategyProvider.get, after its providers have answered: the
\* character name gives the risk level whose config generateRecommendations
\* is then called with (investmentStrategyProviderGet).
riskLevelFromCharacter ==
    /\ apc = "character"
    /\ userRiskLevel' = userRiskLevelOf(characterName)
    /\ riskLevel' = userRiskLevelOf(characterName)
    /\ apc' = "input"
    /\ UNCHANGED <<pools, sentiment, totalAmount, recommendations, characterName>>
    /\ UNCHANGED <<fetchVars, cycleVars, contractVars, confidenceVars, metricsVars, lateVars>>

\* strategyEvaluator.handler for a message that names an amount: the risk
\* level of the strategy it returns.
strategyEvaluatorHandler ==
    /\ apc = "character"
    /\ userRiskLevel' = strategyRiskLevelOf(characterName)
    /\ apc' = "strategy"
    /\ UNCHANGED <<riskLevel, pools, sentiment, totalAmount, recommendations, characterName>>
    /\ UNCHANGED <<fetchVars, cycleVars, contractVars, confidenceVars, metricsVars, lateVars>>

InitProfile ==
    /\ ClientInit /\ LateIdle /\ hasEvaluator /\ hasAction
    /\ FetchIdle /\ ContractIdle
    /\ riskLevel = "MEDIUM" /\ pools \in Evaluate("PoolLists", <<>>)
    /\ sentiment = [isObject |-> TRUE, overall |-> Frac(1, 2)]
    /\ totalAmount = Num(1000) /\ apc = "character" /\ recommendations = <<>>
    /\ confidenceArgs = <<>> /\ confidenceResult = <<>>
    /\ evaluatorRecs = <<>> /\ evaluatorMetrics = <<>>
    /\ characterName \in CharacterNames /\ userRiskLevel = "unset"

NextProfile ==
    \/ riskLevelFromCharacter
    \/ investmentStrategyProviderGet
    \/ strategyEvaluatorHandler

SpecProfile == InitProfile /\ [][NextProfile]_vars

(***************************************************************************)
(* Claims about the risk level.                                            *)
(***************************************************************************)
\* The keywords a name contains, whatever the case of its letters, and the
\* level the specification gives each.
keywordsIn(character) ==
    IF character.isUndefined THEN {}
    ELSE { w \in { <<"c", "o", "n", "s", "e", "r", "v", "a", "t", "i", "v", "e">>,
                   <<"m", "o", "d", "e", "r", "a", "t", "e">>,
                   <<"a", "g", "g", "r", "e", "s", "s", "i", "v", "e">> } :
             \E i \in 1..Len(character.chars) : \E j \in i..Len(character.chars) :
                 charsToLowerCase(SubSeq(character.chars, i, j)) = w }

levelOfKeyword(w) ==
    CASE w[1] = "c" -> "LOW" [] w[1] = "m" -> "MEDIUM" [] w[1] = "a" -> "HIGH"

levelOfStrategy(level) ==
    CASE level = "conservative" -> "LOW" [] level = "moderate" -> "MEDIUM"
      [] level = "aggressive" -> "HIGH"

\* The level of a keyword of the name, MEDIUM for a name without keyword.
classifiedAs(level) ==
    IF keywordsIn(characterName) = {} THEN level = "MEDIUM"
    ELSE \E w \in keywordsIn(characterName) : level = levelOfKeyword(w)

\* C20: the risk level is LOW for a name with 'conservative', MEDIUM with
\* 'moderate', HIGH with 'aggressive', in any letter case, and MEDIUM for a
\* name with none of them or for no name; the recommendations are those of
\* the config of that level.
C20_RiskLevelOfCharacter ==
    /\ (apc \in {"input", "returned"}) =>
          (classifiedAs(userRiskLevel) /\ riskLevel = userRiskLevel)
    /\ (apc = "returned") =>
          (recommendations =
              jsonRoundTrip(generateRecommendations(STRATEGY_CONFIGS(userRiskLevel), pools,
                                [isObject |-> FALSE, overall |-> sentiment.overall], totalAmount)))
    /\ (apc = "strategy") => classifiedAs(levelOfStrategy(userRiskLevel))

\* The provider has answered for a character whose name has the keyword in
\* capitals, with the recommendations of the HIGH config, which differ from
\* those of the MEDIUM config.
C20_Witness ==
    /\ apc = "returned"
    /\ characterName.chars = <<"S", "t", "a", "r", "k", "N", "e", "t", " ", "A", "g", "g", "r", "e", "s", "s", "i", "v", "e">>
    /\ userRiskLevel = "HIGH"
    /\ recommendations # <<>>
    /\ recommendations #
          jsonRoundTrip(generateRecommendations(STRATEGY_CONFIGS("MEDIUM"), pools,
                            [isObject |-> FALSE, overall |-> sentiment.overall], totalAmount))

(***************************************************************************)
(* Claims about the divisors of calculateRiskAdjustedReturn.               *)
(***************************************************************************)
\* The return with the divisors the specification describes: volatility =
\* volume24h / max(tvl, 1), excess return over max(volatility, 0.1).
flooredReturn(pool, config) ==
    LET volatility == Div(pool.volume24h, MathMax(pool.tvl, Num(1)))
        drawdownPenalty ==
            MathMax(Num(0), Sub(MathMin(volatility, Frac(3, 10)), config.maxDrawdown))
    IN  MathMax(Num(0), Mul(Div(Sub(pool.apy, Frac(2, 100)), MathMax(volatility, Frac(1, 10))),
                            Sub(Num(1), drawdownPenalty)))

\* C21: calculateRiskAdjustedReturn divides the excess return by
\* max(volatility, 0.1), with volatility = volume24h / max(tvl, 1), also for
\* a volatility strictly between 0 and 0.1.
C21_DivisorsAreFloored ==
    \A pool \in poolsScored :
        calculateRiskAdjustedReturn(pool, configOf) = flooredReturn(pool, configOf)

(***************************************************************************)
(* The worked example of the allocation engine.                            *)
(***************************************************************************)
\* One eligible zkLend pool (apy 8, tvl 2,000,000, volume24h 100,000,
\* borrow / supply 0.5), any pools beside it not being eligible, the LOW
\* config, 1000 to allocate and a positive sentiment.
exampleInput ==
    /\ riskLevel = "LOW" /\ totalAmount = Num(1000) /\ Lt(Num(0), sentiment.overall)
    /\ Cardinality({ i \in 1..Len(pools) : eligible(pools[i]) }) = 1
    /\ \A i \in 1..Len(pools) :
          \/ /\ pools[i].protocol = "zkLend" /\ pools[i].token0 = "ETH"
             /\ pools[i].apy = Num(8) /\ pools[i].tvl = Num(2000000)
             /\ pools[i].volume24h = Num(100000)
             /\ Div(pools[i].totalBorrow, pools[i].totalSupply) = Frac(1, 2)
          \/ ~eligible(pools[i])

\* C22: on the example input generateRecommendations returns exactly one
\* recommendation, for zkLend, with an amount between 600 and 800.
C22_ExampleAllocation ==
    (apc = "generated" /\ exampleInput) =>
        /\ Len(recommendations) = 1
        /\ recommendations[1].protocol = "zkLend"
        /\ Le(Num(600), recommendations[1].amount)
        /\ Le(recommendations[1].amount, Num(800))

\* The example has been generated, with a pool that is not eligible beside
\* the zkLend pool, and the amount is the maximum of the config.
C22_Witness ==
    /\ apc = "generated" /\ exampleInput /\ Len(pools) = 2
    /\ Len(recommendations) = 1 /\ recommendations[1].amount = Num(800)

(***************************************************************************)
(* generateRecommendations over more pools of one protocol than it         *)
(* selects.                                                                *)
(***************************************************************************)
MaxRanked == 5

\* Four zkLend pools of different risk-adjusted return, one whose totals are
\* parsed from "Infinity" (its volatility, and with it its risk-adjusted
\* return, is NaN) and one of a token that is not supported.
RankingPools ==
    { zkLendPool("ETH", Num(8), Num(50), Num(1000000), Num(2000000)),
      zkLendPool("ETH", Num(4), Num(50), Infinity, Infinity),
      zkLendPool("USDC", Num(5), Num(20), Num(2000000), Num(10000000)),
      zkLendPool("STRK", Num(3), Num(80), Num(800000), Num(1000000)),
      zkLendPool("USDT", Num(12), Num(60), Num(2400000), Num(4000000)),
      zkLendPool("DOGE", Num(50), Num(50), Num(1000000), Num(2000000)) }

\* Pool lists without repetition of at most MaxRanked entries.
RankingLists ==
    { s \in SeqsUpTo(RankingPools, MaxRanked) : Cardinality(Range(s)) = Len(s) }

InitRanking ==
    /\ ClientInit /\ LateIdle /\ hasEvaluator /\ hasAction
    /\ FetchIdle /\ ContractIdle /\ EvaluatorIdle
    /\ riskLevel = "MEDIUM"
    /\ pools \in Evaluate("RankingLists", <<>>)
    /\ sentiment = [isObject |-> TRUE, overall |-> Frac(1, 2)]
    /\ totalAmount = Num(1000) /\ apc = "input" /\ recommendations = <<>>

SpecRanking == InitRanking /\ [][NextAlloc]_vars

\* The pools of the input a recommendation can be for, and the number of
\* eligible pools of the same protocol with a higher risk-adjusted return.
poolsOf(rec) ==
    { i \in 1..Len(pools) :
         /\ pools[i].protocol = rec.protocol /\ pools[i].token0 = rec.token[1]
         /\ pools[i].apy = rec.expectedReturn }

betterPools(i) ==
    { j \in 1..Len(pools) :
         /\ pools[j].token0 \in SUPPORTED_TOKENS /\ pools[j].protocol = pools[i].protocol
         /\ Lt(calculateRiskAdjustedReturn(pools[i], configOf),
               calculateRiskAdjustedReturn(pools[j], configOf)) }

\* C23: a protocol gets at most 3 recommendations, each for an eligible pool
\* that fewer than 3 eligible pools of the protocol exceed in
\* riskAdjustedReturn.
C23_OnlyTopThreePools ==
    (apc # "input") =>
        /\ \A key \in {"zkLend", "ekubo"} : Len(amountsOf(key)) <= 3
        /\ \A r \in 1..Len(recommendations) :
              /\ poolsOf(recommendations[r]) # {}
              /\ \A i \in poolsOf(recommendations[r]) :
                    /\ pools[i].token0 \in SUPPORTED_TOKENS
                    /\ Cardinality(betterPools(i)) < 3

\* With risk-adjusted returns that are all numbers the sort orders the
\* group, and the recommendations are for its three highest returns.
TopThreeOfNumericReturns ==
    (\A i \in 1..Len(pools) : ~IsNaN(calculateRiskAdjustedReturn(pools[i], configOf)))
        => C23_OnlyTopThreePools

\* Five eligible pools were given, the fourth with a NaN return and the
\* fifth with the highest one: the recommendations are for the first three.
MisrankedBesideNaN ==
    /\ apc = "generated" /\ Len(pools) = 5 /\ Len(recommendations) = 3
    /\ IsNaN(calculateRiskAdjustedReturn(pools[4], configOf))
    /\ Cardinality(betterPools(5)) = 0 /\ Cardinality(betterPools(3)) = 3
    /\ \A r \in 1..3 : poolsOf(recommendations[r]) = {r}

(***************************************************************************)
(* Claims about the order of the handler's submissions.                    *)
(***************************************************************************)
\* The recommendation of the n-th handler.executeX call of the invocation.
submitted(n) == protocolRecs(sorted, keys[invoked[n][1]])[invoked[n][2]]

\* Every submission but the last has its entry in results.
oneAtATime == Len(invoked) - 1 <= Len(results) /\ Len(results) <= Len(invoked)

\* C24: the handler submits one transaction at a time, goes through the keys
\* of protocolTotals in their order and, within the pass of one key, submits
\* the recommendations in descending order of
\* 0.7 * confidenceScore + 0.3 * expectedReturn.
C24_OneAtATimeInOrder ==
    /\ oneAtATime
    /\ \A n \in 1..(Len(invoked) - 1) :
          /\ invoked[n][1] <= invoked[n + 1][1]
          /\ invoked[n][1] = invoked[n + 1][1] =>
                Le(recScore(submitted(n + 1)), recScore(submitted(n)))

\* Within one name of protocol the order is descending.
DescendingWithinProtocolName ==
    /\ oneAtATime
    /\ \A n \in 1..(Len(invoked) - 1) :
          /\ invoked[n][1] <= invoked[n + 1][1]
          /\ (invoked[n][1] = invoked[n + 1][1]
                /\ submitted(n).protocol = submitted(n + 1).protocol) =>
                Le(recScore(submitted(n + 1)), recScore(submitted(n)))

(***************************************************************************)
(* Claims about the attempts of execute.                                   *)
(***************************************************************************)
\* The step appends an entry of the given status to results.
recorded(status) ==
    Len(results') = Len(results) + 1 /\ results'[Len(results')].status = status

\* C25: execute returns the hash of the first attempt that was submitted and
\* confirmed and attempts nothing after it; the delay is waited after a
\* failed attempt that another attempt follows, not after the third failure
\* and not after a success.
C25_FirstConfirmedAttemptReturns ==
    [][ /\ recorded("success") =>
              /\ xpc = "confirm" /\ results'[Len(results')].txHash = attempts
              /\ waited = attempts - 1 /\ retry = attempts - 1
              /\ xpc' # "delay" /\ ~(attempts' = attempts + 1)
        /\ recorded("failed") =>
              /\ attempts = maxRetries /\ waited = maxRetries - 1
              /\ xpc' # "delay"
        /\ waited' = waited + 1 =>
              /\ xpc \in {"execute", "confirm"} /\ xpc' = "delay"
              /\ attempts' = attempts /\ attempts < maxRetries
              /\ Len(results') = Len(results)
        /\ xpc = "delay" => (xpc' = "delay" \/ (xpc' = "execute" /\ attempts' = attempts + 1))
      ]_vars

\* The third attempt of a submission was confirmed after two failed ones.
C25_Witness ==
    /\ results # <<>>
    /\ results[Len(results)].status = "success"
    /\ results[Len(results)].txHash = maxRetries

\* C27: within one invocation of the handler no recommendation of the input
\* is submitted twice.
C27_SubmittedAtMostOnce ==
    \A n, m \in 1..Len(invoked) : submitted(n) = submitted(m) => n = m

\* C28: execute submits its call list again only when account.execute itself
\* failed: no account.execute call is made once one was accepted.
C28_NoResubmissionAfterAcceptance == xpc = "execute" => txHash = 0
(***************************************************************************)
(* marketProvider and the SimpleCache behind it.  Only the 'market_data'   *)
(* entry of dataCache is followed; one marketProvider.get call runs at a   *)
(* time, suspended while the token data is being fetched.                  *)
(***************************************************************************)
defaultTTL == 300000
marketTTL == 300

MaxFetches == 3

\* The instants at which Date.now() is read: 300 milliseconds and 5 minutes
\* apart, and a little less and a little more than each.
Instants == {0, 100, 250, 300, 400, 550, 300000, 300250, 300300, 300400, 300700}

\* What JSON.stringify(marketData) can be; never the empty string.
MarketStrings == {"market-a", "market-b"}

\* SimpleCache.set: the entry written at time t.
SimpleCacheSet(value, ttl, t) == [data |-> value, expiry |-> t + ttl]

\* SimpleCache.get at time t: the value returned ("null" for null) ...
SimpleCacheGet(entry, t) ==
    IF entry = <<>> THEN "null"
    ELSE IF t > entry.expiry THEN "null"
    ELSE entry.data

\* ... and the entry it leaves behind.
SimpleCacheAfterGet(entry, t) ==
    IF entry = <<>> THEN <<>>
    ELSE IF t > entry.expiry THEN <<>>
    ELSE entry

\* marketProvider.get up to its first await: a truthy cached value is
\* returned, otherwise the fetching of the token data starts.
marketProviderGet ==
    /\ mpc = "idle"
    /\ LET cachedData == SimpleCacheGet(cache, now) IN
         /\ cache' = SimpleCacheAfterGet(cache, now)
         /\ IF cachedData # "null"
              THEN /\ returned' = [from |-> "cache", data |-> cachedData]
                   /\ UNCHANGED <<mpc, fetches>>
              ELSE /\ fetches < MaxFetches
                   /\ mpc' = "fetching"
                   /\ fetches' = fetches + 1
                   /\ UNCHANGED returned
    /\ UNCHANGED <<now, fetched>>
    /\ UNCHANGED besideCache

\* Every fetch of the three tokens resolved: the string is cached and returned.
marketFetchResolves ==
    /\ mpc = "fetching"
    /\ \E marketData \in MarketStrings :
         /\ cache' = SimpleCacheSet(marketData, marketTTL, now)
         /\ fetched' = [data |-> marketData, at |-> now]
         /\ returned' = [from |-> "fetch", data |-> marketData]
    /\ mpc' = "idle"
    /\ UNCHANGED <<now, fetches>>
    /\ UNCHANGED besideCache

\* A fetch rejected: the error is logged and thrown again.
marketFetchRejects ==
    /\ mpc = "fetching"
    /\ mpc' = "idle"
    /\ returned' = [from |-> "error", data |-> "null"]
    /\ UNCHANGED <<now, cache, fetches, fetched>>
    /\ UNCHANGED besideCache

\* Time passes.
timePasses ==
    /\ \E t \in Instants : t > now /\ now' = t
    /\ UNCHANGED <<cache, mpc, fetches, fetched, returned>>
    /\ UNCHANGED besideCache

InitCache ==
    /\ ClientInit /\ LateIdle /\ hasEvaluator /\ hasAction
    /\ AllocIdle /\ FetchIdle /\ ContractIdle /\ EvaluatorIdle

NextCache ==
    \/ marketProviderGet
    \/ marketFetchResolves
    \/ marketFetchRejects
    \/ timePasses

SpecCache == InitCache /\ [][NextCache]_vars

fiveMinutes == 5 * 60 * 1000

\* A marketProvider.get call starts after a successful fetch and no later
\* than `span` milliseconds after it.
getWithin(span) == marketProviderGet /\ fetched # <<>> /\ now <= fetched.at + span

\* The call returns the string of that fetch without fetching again.
servedFromCache ==
    /\ returned' = [from |-> "cache", data |-> fetched.data]
    /\ fetches' = fetches
    /\ mpc' = "idle"

\* The call finds an entry whose expiry time has passed.
getFindsExpired == marketProviderGet /\ cache # <<>> /\ now > cache.expiry

\* The entry is deleted and not returned: the call goes on to fetch.
expiredDropped == cache' = <<>> /\ mpc' = "fetching"

\* C26: after a successful fetch every marketProvider.get call made within
\* the next 5 minutes returns the cached string without fetching again, and
\* SimpleCache.get never returns an entry whose expiry time has passed: it
\* deletes it and returns null.
C26_CachedForFiveMinutes ==
    [][/\ getWithin(fiveMinutes) => servedFromCache
       /\ getFindsExpired => expiredDropped]_vars

\* What holds of the code: the string is served for the 300 milliseconds
\* marketProvider.get passes to SimpleCache.set ...
CachedForMarketTTL == [][getWithin(marketTTL) => servedFromCache]_vars

\* ... and an entry whose expiry time has passed is never returned.
ExpiredEntryNeverReturned == [][getFindsExpired => expiredDropped]_vars

\* A call made within 5 minutes of a successful fetch found the entry
\* expired and fetched again.
RefetchedWithinFiveMinutes ==
    /\ mpc = "fetching" /\ fetched # <<>> /\ cache = <<>>
    /\ now <= fetched.at + fiveMinutes
(***************************************************************************)
(* The AutoClient that keeps trading metrics: makeTrades, executeTrades    *)
(* and updateMetrics.  What the evaluator resolves with and the results    *)
(* of the action handler are inputs of a cycle.                            *)
(***************************************************************************)
MaxCycles == 3
MaxSubmissions == 2

\* What the evaluator can resolve with: the number of recommendations and
\* the values of protocolTotals, either of which can be missing.
EvaluatorResults ==
    {result \in [hasRecommendations : BOOLEAN, recommendations : 0..MaxSubmissions,
                 hasTotals : BOOLEAN, protocolTotals : {<<>>, <<400>>, <<600, 400>>}] :
        /\ ~result.hasRecommendations => result.recommendations = 0
        /\ ~result.hasTotals => result.protocolTotals = <<>>}

\* The statuses of the results the action handler can return for a result
\* of the evaluator; without recommendations or totals it returns none.
\* The pass of each key of protocolTotals adds at most one entry for each
\* recommendation: keys that differ in letter case select the same ones.
StatusesFor(result) ==
    IF ~result.hasRecommendations \/ ~result.hasTotals
      THEN {<<>>}
      ELSE SeqsUpTo({"success", "failed"},
                    result.recommendations * Len(result.protocolTotals))

\* Object.values(result.protocolTotals).reduce((sum, val) => sum + val, 0)
RECURSIVE sumOfTotals(_)
sumOfTotals(totals) ==
    IF totals = <<>> THEN 0 ELSE Head(totals) + sumOfTotals(Tail(totals))

\* The catch and finally blocks of makeTrades.
cycleThrew(state) ==
    [state EXCEPT !.failedTrades = @ + 1, !.isActive = FALSE]

\* The body of makeTrades up to its first await, past the guard: without
\* the evaluator it throws, and the catch and finally blocks run at once.
cycleStarted(state) ==
    IF hasEvaluator THEN [state EXCEPT !.isActive = TRUE] ELSE cycleThrew(state)

\* A tick of the timer: makeTrades up to its first await.  A call made
\* while a cycle is in progress returns at the guard.
trackerMakeTrades ==
    /\ trackerInterval
    /\ IF tradingState.isActive
         THEN UNCHANGED <<tradingState, tpc>>
         ELSE /\ tradingState.successfulTrades + tradingState.failedTrades < MaxCycles
              /\ tradingState' = cycleStarted(tradingState)
              /\ tpc' = IF hasEvaluator THEN "evaluating" ELSE tpc
    /\ UNCHANGED <<cycleResult, handlerStatuses, trackerInterval, hasEvaluator, hasAction>>
    /\ UNCHANGED besideTracker

\* evaluator.handler resolved: makeTrades calls executeTrades, which looks
\* the action up and calls its handler, or throws without the action.
trackerEvaluatorResolves ==
    /\ tpc = "evaluating"
    /\ \E result \in EvaluatorResults : cycleResult' = result
    /\ tpc' = IF hasAction THEN "executing" ELSE "executeTradesRejected"
    /\ UNCHANGED <<tradingState, handlerStatuses, trackerInterval, hasEvaluator, hasAction>>
    /\ UNCHANGED besideTracker

\* evaluator.handler rejected: makeTrades goes on in its catch block.
trackerEvaluatorRejects ==
    /\ tpc = "evaluating"
    /\ tpc' = "idle"
    /\ tradingState' = cycleThrew(tradingState)
    /\ UNCHANGED <<cycleResult, handlerStatuses, trackerInterval, hasEvaluator, hasAction>>
    /\ UNCHANGED besideTracker

\* executeAction.handler resolved (it never rejects): executeTrades goes
\* on, adds the protocolTotals to totalVolume and returns, or throws at
\* Object.values of the missing protocolTotals.
trackerHandlerResolves ==
    /\ tpc = "executing"
    /\ \E statuses \in StatusesFor(cycleResult) : handlerStatuses' = statuses
    /\ IF cycleResult.hasTotals
         THEN /\ tradingState' =
                   [tradingState EXCEPT
                      !.totalVolume = @ + sumOfTotals(cycleResult.protocolTotals)]
              /\ tpc' = "executeTradesResolved"
         ELSE /\ UNCHANGED tradingState
              /\ tpc' = "executeTradesRejected"
    /\ UNCHANGED <<cycleResult, trackerInterval, hasEvaluator, hasAction>>
    /\ UNCHANGED besideTracker

\* makeTrades goes on after `await this.executeTrades(...)` and calls
\* updateMetrics, which throws at the reduce of the missing recommendations.
trackerUpdateMetrics ==
    /\ tpc = "executeTradesResolved"
    /\ tpc' = IF cycleResult.hasRecommendations
                THEN "updateMetricsResolved" ELSE "updateMetricsRejected"
    /\ UNCHANGED <<tradingState, cycleResult, handlerStatuses, trackerInterval,
                   hasEvaluator, hasAction>>
    /\ UNCHANGED besideTracker

\* makeTrades goes on after `await this.updateMetrics(result)`: the cycle is
\* counted, and the finally block clears isActive.
trackerCycleCompletes ==
    /\ tpc = "updateMetricsResolved"
    /\ tradingState' = [tradingState EXCEPT !.successfulTrades = @ + 1,
                                            !.totalTradesExecuted = @ + 1,
                                            !.isActive = FALSE]
    /\ tpc' = "idle"
    /\ UNCHANGED <<cycleResult, handlerStatuses, trackerInterval, hasEvaluator, hasAction>>
    /\ UNCHANGED besideTracker

\* makeTrades goes on in its catch block after executeTrades or
\* updateMetrics rejected.
trackerCycleFails ==
    /\ tpc \in {"executeTradesRejected", "updateMetricsRejected"}
    /\ tradingState' = cycleThrew(tradingState)
    /\ tpc' = "idle"
    /\ UNCHANGED <<cycleResult, handlerStatuses, trackerInterval, hasEvaluator, hasAction>>
    /\ UNCHANGED besideTracker

\* stop(): the timer is cleared and isActive is set to false; a cycle that
\* is in progress goes on.
trackerStop ==
    /\ trackerInterval' = FALSE
    /\ tradingState' = [tradingState EXCEPT !.isActive = FALSE]
    /\ UNCHANGED <<tpc, cycleResult, handlerStatuses, hasEvaluator, hasAction>>
    /\ UNCHANGED besideTracker

\* The client after its constructor: tradingState is initialised, and
\* startTradingLoop has armed the timer and called makeTrades, which ran up
\* to its first await.
TrackerConstructed ==
    /\ tradingState = cycleStarted([isActive |-> FALSE, totalTradesExecuted |-> 0,
                                    successfulTrades |-> 0, failedTrades |-> 0,
                                    totalVolume |-> 0])
    /\ tpc = IF hasEvaluator THEN "evaluating" ELSE "idle"
    /\ cycleResult = <<>> /\ handlerStatuses = <<>>
    /\ trackerInterval = TRUE

InitTracker ==
    /\ ClientInit /\ CacheIdle /\ HistoryIdle /\ TrackerConstructed
    /\ AllocIdle /\ FetchIdle /\ ContractIdle /\ EvaluatorIdle

NextTracker ==
    \/ trackerMakeTrades
    \/ trackerEvaluatorResolves
    \/ trackerEvaluatorRejects
    \/ trackerHandlerResolves
    \/ trackerUpdateMetrics
    \/ trackerCycleCompletes
    \/ trackerCycleFails
    \/ trackerStop

SpecTracker == InitTracker /\ [][NextTracker]_vars

\* Some transaction of the cycle was executed successfully; every
\* submission of the cycle failed.
someSucceeded(statuses) == \E i \in DOMAIN statuses : statuses[i] = "success"
allFailed(statuses) ==
    statuses # <<>> /\ \A i \in DOMAIN statuses : statuses[i] = "failed"

\* The step in which makeTrades ends a cycle whose action handler returned.
cycleEndsAfterHandler ==
    /\ hasAction /\ tpc' = "idle"
    /\ tpc \in {"executeTradesRejected", "updateMetricsResolved", "updateMetricsRejected"}

\* C29: a cycle is counted in successfulTrades and its protocolTotals are
\* added to totalVolume only if at least one of its transactions was
\* executed successfully; a cycle in which every submission failed is
\* counted in failedTrades and adds nothing to totalVolume; and
\* totalTradesExecuted equals successfulTrades + failedTrades.
C29_CyclesCountedByOutcome ==
    [][/\ (\/ tradingState'.successfulTrades > tradingState.successfulTrades
           \/ tradingState'.totalVolume > tradingState.totalVolume)
          => someSucceeded(handlerStatuses')
       /\ (trackerHandlerResolves /\ allFailed(handlerStatuses'))
          => tradingState'.totalVolume = tradingState.totalVolume
       /\ (cycleEndsAfterHandler /\ allFailed(handlerStatuses))
          => tradingState'.failedTrades = tradingState.failedTrades + 1
       /\ (tpc' = "idle")
          => tradingState'.totalTradesExecuted =
               tradingState'.successfulTrades + tradingState'.failedTrades]_vars

\* The three parts of C29 one by one.
CountedOnlyWithSuccess ==
    [][(\/ tradingState'.successfulTrades > tradingState.successfulTrades
        \/ tradingState'.totalVolume > tradingState.totalVolume)
       => someSucceeded(handlerStatuses')]_vars

AllFailedCountedAsFailed ==
    [][/\ (trackerHandlerResolves /\ allFailed(handlerStatuses'))
          => tradingState'.totalVolume = tradingState.totalVolume
       /\ (cycleEndsAfterHandler /\ allFailed(handlerStatuses))
          => tradingState'.failedTrades = tradingState.failedTrades + 1]_vars

TotalIsSuccessfulPlusFailed ==
    tpc = "idle" =>
        tradingState.totalTradesExecuted =
          tradingState.successfulTrades + tradingState.failedTrades

\* What holds of the code: a cycle whose handler returned is counted as
\* successful exactly when the evaluator's result had both fields, whatever
\* the statuses and whether or not stop() was called meanwhile;
\* totalTradesExecuted counts the successful cycles only.
CountedWhenHandlerReturned ==
    [][cycleEndsAfterHandler
       => (tradingState'.successfulTrades = tradingState.successfulTrades + 1)
            = (cycleResult.hasTotals /\ cycleResult.hasRecommendations)]_vars

TotalIsSuccessfulOnly ==
    tradingState.totalTradesExecuted = tradingState.successfulTrades

(***************************************************************************)
(* defiEvaluator.handler and the module-global recommendationHistory.      *)
(* A key `${rec.protocol}-${rec.token}` is modelled as the pair.           *)
(***************************************************************************)
MaxHistory == 7

\* The recommendations the strategy can contain, and the lists of them a
\* handler call is given: one recommendation, or two (of one key or two).
HistoryRecs ==
    {[protocol |-> key[1], token |-> key[2], expectedReturn |-> Num(r)] :
        key \in HistoryKeys, r \in {0, 5}}
RecommendationBatches ==
    {<<rec>> : rec \in HistoryRecs} \cup {<<rec, next>> : rec, next \in HistoryRecs}

historyKeyOf(rec) == <<rec.protocol, rec.token>>

\* recommendationHistory[historyKey] || { ..., totalRecommendations: 0 }
historyFor(table, rec) ==
    IF table[historyKeyOf(rec)] # <<>> THEN table[historyKeyOf(rec)]
    ELSE [successRate |-> Frac(8, 10), averageReturn |-> rec.expectedReturn,
          totalRecommendations |-> 0]

\* One call of the map callback: the table after it ...
historyAfter(table, rec) ==
    [table EXCEPT ![historyKeyOf(rec)] =
        [historyFor(table, rec) EXCEPT !.totalRecommendations = @ + 1]]

\* ... and what it returns, with the count the confidence was calculated from.
enhancedRec(table, rec) ==
    [key |-> historyKeyOf(rec),
     expectedReturn |-> rec.expectedReturn,
     confidence |-> calculateConfidence(historyFor(table, rec), rec),
     averageReturn |-> historyFor(table, rec).averageReturn,
     priorCount |-> historyFor(table, rec).totalRecommendations]

\* recommendations.map(...) from the k-th recommendation on.
RECURSIVE enhanceFrom(_, _, _)
enhanceFrom(table, recs, k) ==
    IF k > Len(recs) THEN [table |-> table, out |-> <<>>]
    ELSE LET rest == enhanceFrom(historyAfter(table, recs[k]), recs, k + 1)
         IN  [table |-> rest.table, out |-> <<enhancedRec(table, recs[k])>> \o rest.out]

\* The entry of the log for a key after a call that returned `out`.
RECURSIVE logAfter(_, _, _)
logAfter(entry, out, key) ==
    IF out = <<>> THEN entry
    ELSE logAfter(IF Head(out).key = key
                    THEN [confidence |-> Head(out).confidence,
                          matched |-> Head(out).expectedReturn = Head(out).averageReturn]
                    ELSE entry,
                  Tail(out), key)

\* The count stored for a key; 0 while the key is missing.
countOf(table, key) ==
    IF table[key] = <<>> THEN 0 ELSE table[key].totalRecommendations

\* The recommendations processed since the module was loaded.
processedIn(table) ==
    countOf(table, <<"zkLend", "ETH">>) + countOf(table, <<"Ekubo", "STRK">>)

\* defiEvaluator.handler up to the storing of the result.
defiEvaluatorHandler ==
    /\ \E recs \in Evaluate("RecommendationBatches", <<>>) :
         LET done == Evaluate("enhanceFrom", <<recommendationHistory, recs, 1>>) IN
           /\ processedIn(done.table) <= MaxHistory
           /\ recommendationHistory' = done.table
           /\ enhanced' = done.out
           /\ confidenceLog' = [key \in HistoryKeys |-> logAfter(confidenceLog[key], done.out, key)]
    /\ UNCHANGED besideHistory

InitHistory ==
    /\ ClientInit /\ LateIdle /\ hasEvaluator /\ hasAction
    /\ AllocIdle /\ FetchIdle /\ ContractIdle /\ EvaluatorIdle

NextHistory == defiEvaluatorHandler

SpecHistory == InitHistory /\ [][NextHistory]_vars

\* The recommendations of a key among those a call processed.
processedFor(out, key) == {i \in DOMAIN out : out[i].key = key}

\* What was calculated for a key just before the i-th recommendation of a
\* call: by an earlier recommendation of the call, else by an earlier call.
labelBefore(log, out, i) ==
    logAfter(log[out[i].key], SubSeq(out, 1, i - 1), out[i].key)

matchedAt(out, i) == out[i].expectedReturn = out[i].averageReturn

\* The counter of every key grows by the number of recommendations
\* processed for it, one each.
CounterCountsProcessed ==
    [][\A key \in HistoryKeys :
         countOf(recommendationHistory', key) =
           countOf(recommendationHistory, key) + Cardinality(processedFor(enhanced', key))]_vars

\* While the expected return equals the stored average, the label of a key
\* is never lower than the one calculated before.
LabelNeverDecreases ==
    [][defiEvaluatorHandler =>
         \A i \in DOMAIN enhanced' :
           LET before == labelBefore(confidenceLog, enhanced', i) IN
             (matchedAt(enhanced', i) /\ before # <<>> /\ before.matched)
               => labelRank(enhanced'[i].confidence) >= labelRank(before.confidence)]_vars

\* With the expected return equal to the stored average the label is
\* medium, and high once the prior count is at least 6.
ladderAt(out, i) ==
    out[i].confidence = IF out[i].priorCount >= 6 THEN "high" ELSE "medium"

\* C30: the totalRecommendations counter of a key increases by exactly 1
\* per recommendation processed for the key and never decreases, and, while
\* the recommendation's expectedReturn stays equal to the stored
\* averageReturn, the confidence label of the key never decreases from one
\* invocation to the next: it starts at medium and reaches high once the
\* prior count is at least 6.
C30_CounterAndLabelGrow ==
    [][defiEvaluatorHandler =>
         /\ \A key \in HistoryKeys :
              countOf(recommendationHistory', key) =
                countOf(recommendationHistory, key) + Cardinality(processedFor(enhanced', key))
         /\ \A i \in DOMAIN enhanced' :
              LET before == labelBefore(confidenceLog, enhanced', i) IN
                /\ (matchedAt(enhanced', i) /\ before # <<>> /\ before.matched)
                     => labelRank(enhanced'[i].confidence) >= labelRank(before.confidence)
                /\ matchedAt(enhanced', i) => ladderAt(enhanced', i)]_vars

\* What holds of the code: the ladder, for a stored average other than 0.
LadderForNonZeroAverage ==
    [][defiEvaluatorHandler =>
         \A i \in DOMAIN enhanced' :
           (matchedAt(enhanced', i) /\ enhanced'[i].averageReturn # Num(0))
             => ladderAt(enhanced', i)]_vars

\* With a stored average of 0, the division by it leaves the score NaN and
\* the label 'none', whatever the count.
NoneForZeroAverage ==
    [][defiEvaluatorHandler =>
         \A i \in DOMAIN enhanced' :
           (matchedAt(enhanced', i) /\ enhanced'[i].averageReturn = Num(0))
             => enhanced'[i].confidence = "none"]_vars

(***************************************************************************)
(* Evaluate: the operator named op applied to args.                        *)
(***************************************************************************)
Evaluate(op, args) ==
    CASE op = "BigShl" -> BigShlOf(args[1], args[2])
      [] op = "Rounded" -> RoundedOf(args[1], args[2], args[3])
      [] op = "Canonical" -> CanonicalOf(args[1], args[2], args[3])
      [] op = "BigShr" -> BigShrOf(args[1], args[2])
      [] op = "Add" -> AddOf(args[1], args[2])
      [] op = "Mul" -> MulOf(args[1], args[2])
      [] op = "Compare" -> CompareOf(args[1], args[2])
      [] op = "Div" -> DivOf(args[1], args[2])
      [] op = "BigMul" -> BigMulOf(args[1], args[2])
      [] op = "BigDivMod" -> BigDivModOf(args[1], args[2])
      [] op = "BigDivDigit" -> BigDivDigitOf(args[1], args[2])
      [] op = "Num" -> NumOf(args[1])
      [] op = "Frac" -> FracOf(args[1], args[2])
      [] op = "sortScored" -> sortScored(args[1])
      [] op = "sortRecommendations" -> sortRecommendations(args[1])
      [] op = "generateRecommendations" ->
           generateRecommendations(STRATEGY_CONFIGS(args[1]), args[2], args[3], args[4])
      [] op = "investmentStrategyProvider.get" ->
           jsonRoundTrip(generateRecommendations(STRATEGY_CONFIGS(args[1]), args[2],
                                                 args[3], args[4]))
      [] op = "calculatePortfolioMetrics" -> calculatePortfolioMetrics(args[1])
      [] op = "shouldRebalance" -> shouldRebalance(args[1], args[2], args[3])
      [] op = "calculateConfidenceScore" -> calculateConfidenceScore(args[1], args[2])
      [] op = "historyConfidenceScore" -> historyConfidenceScore(args[1], args[2])
      [] op = "calculateConfidence" -> calculateConfidence(args[1], args[2])
      [] op = "engineConfidenceScore" -> engineConfidenceScore(args[1], args[2], args[3])
      [] op = "engineCalculateConfidence" ->
           engineCalculateConfidence(args[1], args[2], args[3])
      [] op = "evaluatorCalculatePortfolioMetrics" ->
           evaluatorCalculatePortfolioMetrics(args[1])
      [] op = "enhanceFrom" -> enhanceFrom(args[1], args[2], args[3])
      [] op = "PoolLists" -> PoolLists
      [] op = "Sentiments" -> Sentiments
      [] op = "TotalAmounts" -> TotalAmounts
      [] op = "ProtocolPools" -> ProtocolPools(args[1])
      [] op = "RankingLists" -> RankingLists
      [] op = "PositionLists" -> PositionLists
      [] op = "RiskManagements" -> RiskManagements
      [] op = "mockRiskManagement" -> mockRiskManagement
      [] op = "ConfidenceArgs" -> ConfidenceArgs
      [] op = "RecommendationLists" -> RecommendationLists
      [] op = "RecommendationBatches" -> RecommendationBatches
====
